---- MODULE Spec2Model ----
(***************************************************************************)
(* Model of the TypeScript load-test emulator of centrifugo-cluster-demo:  *)
(*   - EmulatorClient (typescript-client/src/client.ts): the cycle loop    *)
(*     of run()/runCycle() and the token/completion coordinator made of    *)
(*     tokenQueue, tokenResolvers, donePromise/doneResolve;                *)
(*   - EmulatorOrchestrator and Semaphore (the orchestrator with the       *)
(*     admission limiter, and the orchestrator.ts without one).            *)
(* JavaScript runs every callback to completion and drains the microtask   *)
(* queue before the next timer or socket event, so one action here is one  *)
(* macrotask: a timer firing, a socket message, a fetch settling, together *)
(* with every continuation of an await that it makes runnable.             *)
(***************************************************************************)
EXTENDS Integers, Sequences, FiniteSets, TLC

\* ------------------------------------------------------------------ bounds
CyclesPerClient == 2
MaxMsgs == 3
MaxClients == 3
MaxConcurrent == 2
MaxTicks == 1
MaxSocks == 3
MaxProcs == 2
MaxDrops == 1
MaxSamples == 4

\* ------------------------------------------------------------------ state
VARIABLES
    \* EmulatorClient
    cpc,             \* position of run(): start, creating, parsing, opening,
                     \* handshake, request, waitToken, waitDone, json, closing,
                     \* returned (threw: run() rejected)
    cycle,           \* 1-based index of the cycle in progress (0 before the first)
    tokenQueue,      \* buffered tokens; a token is the cycle whose request produced it
    tokenResolvers,  \* queued waiters; a waiter is the cycle whose waitForToken made it
    doneResolved,    \* whether the current donePromise has been resolved
    stats,           \* the client's ClientStats
    shouldReconnect, \* cleared by disconnect()
    wsOpen,          \* this.ws is an open socket delivering messages
    \* transport and server (external)
    net,             \* messages pushed by the server, in flight, in order
    sentTokens,      \* per cycle, how many tokens the server has emitted for it
    sentDone,        \* per cycle, whether the server has emitted its done marker
    \* history of the client, for the properties
    outcome,         \* per cycle: how runCycle ended
    firstTokenOf,    \* per cycle: the cycle of the token that ended its first-token wait
    doneBy,          \* the cycle of the done marker that resolved the current donePromise
    completedBy,     \* per cycle: the cycle of the done marker its completion wait saw
    handed,          \* records of a queued waiter being handed a token
    \* EmulatorClient: session, sockets and reconnection
    sessionId,       \* this.sessionId: "" until the session API answered
    ws,              \* this.ws: the socket the client holds, 0 for null
    sock,            \* per socket: none, connecting, abandoned, open, erroring, closed
    handlers,        \* per socket: the handler sets setupWebSocketHandlers installed
    procs,           \* per slot: a running reconnectWebSocket() and where it stands
    drops,           \* transport failures so far
    log,             \* the error and warning lines of connect() and disconnect() so far
    failures,        \* history: the steps of connect() and disconnect() that failed
    deletes,         \* history: session DELETE calls that settled
    \* EmulatorOrchestrator
    limiter,         \* TRUE: the orchestrator with the Semaphore; FALSE: orchestrator.ts
    numClients,      \* config.numClients
    maxConcurrent,   \* config.maxConcurrentClients (--max-concurrent)
    opc,             \* position of EmulatorOrchestrator.run()
    permits,         \* Semaphore.permits
    queue,           \* Semaphore.queue: the clients blocked in acquire(), in order
    cstate,          \* per client: position of its runClient task
    clientsStats,    \* EmulatorOrchestrator.clientsStats
    running,         \* EmulatorOrchestrator.running
    progressInterval,\* the setInterval handle: TRUE while armed
    report,          \* the AggregatedStats handed to printReport, or NoReport
    \* history of the orchestrator, for the properties
    ticket,          \* per client: the order in which it called acquire()
    releases,        \* per client: how many times it called release()
    progressLog,     \* number of progress lines printed
    clearCount,      \* number of clearInterval calls
    \* statistics.ts: one call of percentile
    samples,         \* the argument arr
    pct,             \* the argument p, in percent
    pvalue,          \* the value returned, or NoValue before the call
    \* time within one runCycle, in units of which requestTimeout is a few
    elapsed,         \* time since the top of the runCycle in progress
    deadline,        \* elapsed at which the timer of the race in progress fires
    runCalls         \* history: the fetch calls of /api/run issued so far

cvars == <<cpc, cycle, tokenQueue, tokenResolvers, doneResolved, stats,
           shouldReconnect, wsOpen, net, sentTokens, sentDone, outcome,
           firstTokenOf, doneBy, completedBy, handed>>

ovars == <<limiter, numClients, maxConcurrent, opc, permits, queue,
           cstate, clientsStats, running, progressInterval, report, ticket,
           releases, progressLog, clearCount>>

lvars == <<sessionId, ws, sock, handlers, procs, drops, log, failures,
           deletes>>

svars == <<samples, pct, pvalue>>

tvars == <<elapsed, deadline, runCalls>>

vars == <<cvars, ovars, lvars, svars, tvars>>

Cycles == 1..CyclesPerClient
ClientIds == 0..(MaxClients - 1)
NoReport == [totalClients |-> -1]
NoValue == [num |-> 0, den |-> 0]
SockIds == 1..MaxSocks
ProcIds == 1..MaxProcs
IdleProc == [pc |-> "idle", attempt |-> 0, s |-> 0, wait |-> 0]

RECURSIVE SumTo(_, _)
SumTo(f, n) == IF n = 0 THEN 0 ELSE f[n] + SumTo(f, n - 1)


\* ------------------------------------------------------------ EmulatorClient
\* new ClientStats(clientId, ''): every counter 0, both latency lists empty.
\* A latency sample is modelled by the cycle that recorded it.
NewClientStats ==
    [requestLatencies |-> <<>>, tokenLatencies |-> <<>>, cyclesCompleted |-> 0,
     totalTokensReceived |-> 0, totalRequests |-> 0, connectionErrors |-> 0,
     timeoutErrors |-> 0, otherErrors |-> 0, reconnectionCount |-> "undefined"]

TimeoutOutcomes == {"requestTimeout", "tokenTimeout", "doneTimeout"}

\* The top of runCycle up to its first await: the token buffer is replaced by
\* an empty one, a fresh donePromise is installed, the request is issued.
\* tokenResolvers is not touched.
ResetCoordinator ==
    /\ tokenQueue' = <<>>
    /\ doneResolved' = FALSE
    /\ doneBy' = 0

\* config.requestTimeout, in time units.
ConfigRequestTimeout == 2

\* setTimeout(..., this.config.requestTimeout) of a race of runCycle: the timer
\* fires requestTimeout after the moment it is created.
ArmTimer(at) == deadline' = at + ConfigRequestTimeout

\* The top of runCycle: firstTokenStart and requestStart are taken, the fetch
\* of /api/run is issued and the timer of the request race is created.
StartCycle ==
    /\ elapsed' = 0
    /\ ArmTimer(0)
    /\ runCalls' = runCalls + 1

AfterCycleBreaksOnFailure(st, oc) ==
    /\ stats' = st
    /\ outcome' = [outcome EXCEPT ![cycle] = oc]
    /\ IF cycle < CyclesPerClient /\ oc = "completed"
          THEN /\ cycle' = cycle + 1
               /\ ResetCoordinator
               /\ StartCycle
               /\ cpc' = "request"
               /\ UNCHANGED shouldReconnect
          ELSE /\ cpc' = "closing"
               /\ shouldReconnect' = FALSE
               /\ UNCHANGED <<cycle, tokenQueue, doneResolved, doneBy>>
               /\ UNCHANGED tvars

\* Faulty catch, against which C34 is tested: a cycle that lost a race to its
\* timer is run again (the request is issued once more) instead of being given
\* up.
AfterCycleRetries(st, oc) ==
    /\ stats' = st
    /\ IF oc \in TimeoutOutcomes
          THEN /\ ResetCoordinator
               /\ StartCycle
               /\ cpc' = "request"
               /\ UNCHANGED <<cycle, outcome, shouldReconnect>>
          ELSE /\ outcome' = [outcome EXCEPT ![cycle] = oc]
               /\ IF cycle < CyclesPerClient
                     THEN /\ cycle' = cycle + 1
                          /\ ResetCoordinator
                          /\ StartCycle
                          /\ cpc' = "request"
                          /\ UNCHANGED shouldReconnect
                     ELSE /\ cpc' = "closing"
                          /\ shouldReconnect' = FALSE
                          /\ UNCHANGED <<cycle, tokenQueue, doneResolved, doneBy>>
                          /\ UNCHANGED tvars

\* What follows the return of runCycle in run(): the next iteration of the
\* for loop enters runCycle at once, or, after the last one, disconnect()
\* clears shouldReconnect and awaits the session DELETE.
AfterCycle(st, oc) ==
    /\ stats' = st
    /\ outcome' = [outcome EXCEPT ![cycle] = oc]
    /\ IF cycle < CyclesPerClient
          THEN /\ cycle' = cycle + 1
               /\ ResetCoordinator
               /\ StartCycle
               /\ cpc' = "request"
               /\ UNCHANGED shouldReconnect
          ELSE /\ cpc' = "closing"
               /\ shouldReconnect' = FALSE
               /\ UNCHANGED <<cycle, tokenQueue, doneResolved, doneBy>>
               /\ UNCHANGED tvars

\* The messages of the errors that reach the catch of runCycle, as words: the
\* three timers of runCycle, a rejected fetch, and response.json() failing on
\* a body that is not JSON.
TimeoutMessage(kind) ==
    CASE kind = "requestTimeout" -> <<"Request", "timeout">>
      [] kind = "tokenTimeout" -> <<"Token", "timeout">>
      [] kind = "doneTimeout" -> <<"Done", "timeout">>

FetchErrors == {<<"fetch", "failed">>}
JsonErrors == {<<"Unexpected", "token">>}

\* message.includes(word)
IncludesExact(msg, word) == msg = <<word>>

Includes(msg, word) == \E i \in 1..Len(msg) : msg[i] = word

\* catch of runCycle: a message containing 'timeout' counts as a timeout,
\* anything else as an other error; runCycle returns null.
CycleCatchUncounted(msg, oc) == AfterCycle(stats, oc)

CycleCatch(msg, oc) ==
    IF Includes(msg, "timeout")
       THEN AfterCycle([stats EXCEPT !.timeoutErrors = @ + 1], oc)
       ELSE AfterCycle([stats EXCEPT !.otherErrors = @ + 1], oc)

CycleTimeout(kind) == CycleCatch(TimeoutMessage(kind), kind)

CycleError(msg) == CycleCatch(msg, "error")

\* runCycle after the first token: the first-token latency is recorded and the
\* completion race starts; a donePromise that is already resolved wins it at
\* once and response.json() is awaited.
\* st: the stats so far; tok: the first token.
AfterFirstToken(st, tok, resolvedNow, by) ==
    /\ stats' = [st EXCEPT !.tokenLatencies = Append(@, cycle)]
    /\ firstTokenOf' = [firstTokenOf EXCEPT ![cycle] = tok]
    /\ UNCHANGED <<elapsed, runCalls>>
    /\ ArmTimer(elapsed)
    /\ IF resolvedNow
          THEN /\ cpc' = "json"
               /\ completedBy' = [completedBy EXCEPT ![cycle] = by]
          ELSE /\ cpc' = "waitDone"
               /\ UNCHANGED completedBy

\* The statistics after the request race was won: the latency sample of the
\* cycle in progress is pushed and totalRequests is incremented.
RecordRequestUncounted(st) ==
    [st EXCEPT !.requestLatencies = Append(@, cycle)]

RecordRequest(st) ==
    [st EXCEPT !.requestLatencies = Append(@, cycle),
               !.totalRequests = @ + 1]

\* The fetch of /api/run won its race: request latency and totalRequests are
\* recorded, then waitForToken() either takes the oldest buffered token or
\* queues a waiter.
RequestResolve ==
    /\ cpc = "request"
    /\ LET st == RecordRequest(stats)
       IN IF Len(tokenQueue) > 0
             THEN /\ tokenQueue' = Tail(tokenQueue)
                  /\ AfterFirstToken(st, Head(tokenQueue), doneResolved, doneBy)
                  /\ UNCHANGED tokenResolvers
             ELSE /\ tokenResolvers' = Append(tokenResolvers, cycle)
                  /\ stats' = st
                  /\ cpc' = "waitToken"
                  /\ UNCHANGED <<elapsed, runCalls>>
                  /\ ArmTimer(elapsed)
                  /\ UNCHANGED <<tokenQueue, firstTokenOf, completedBy>>
    /\ UNCHANGED <<cycle, doneResolved, shouldReconnect, wsOpen, net,
                   sentTokens, sentDone, outcome, doneBy, handed>>
    /\ UNCHANGED <<ovars, lvars, svars>>

\* The fetch of /api/run rejected before its timer fired.
RequestReject ==
    /\ cpc = "request"
    /\ \E msg \in FetchErrors : CycleError(msg)
    /\ UNCHANGED <<tokenResolvers, wsOpen, net, sentTokens, sentDone,
                   firstTokenOf, completedBy, handed>>
    /\ UNCHANGED <<ovars, lvars, svars>>

\* The timer of the request race fired first.
RequestTimeout ==
    /\ cpc = "request"
    /\ CycleTimeout("requestTimeout")
    /\ UNCHANGED <<tokenResolvers, wsOpen, net, sentTokens, sentDone,
                   firstTokenOf, completedBy, handed>>
    /\ UNCHANGED <<ovars, lvars, svars>>

\* The timer of the first-token race fired first. The waiter that
\* waitForToken queued stays in tokenResolvers.
TokenTimeout ==
    /\ cpc = "waitToken"
    /\ CycleTimeout("tokenTimeout")
    /\ UNCHANGED <<tokenResolvers, wsOpen, net, sentTokens, sentDone,
                   firstTokenOf, completedBy, handed>>
    /\ UNCHANGED <<ovars, lvars, svars>>

\* The timer of the completion race fired first.
DoneTimeout ==
    /\ cpc = "waitDone"
    /\ CycleTimeout("doneTimeout")
    /\ UNCHANGED <<tokenResolvers, wsOpen, net, sentTokens, sentDone,
                   firstTokenOf, completedBy, handed>>
    /\ UNCHANGED <<ovars, lvars, svars>>

\* this.stats.cyclesCompleted++
CountCycleNever(st) == st

CountCycle(st) == [st EXCEPT !.cyclesCompleted = @ + 1]

\* response.json() resolved: the cycle is completed.
JsonOk ==
    /\ cpc = "json"
    /\ AfterCycle(CountCycle(stats), "completed")
    /\ UNCHANGED <<tokenResolvers, wsOpen, net, sentTokens, sentDone,
                   firstTokenOf, completedBy, handed>>
    /\ UNCHANGED <<ovars, lvars, svars>>

\* response.json() rejected (the body is not JSON).
JsonFail ==
    /\ cpc = "json"
    /\ \E msg \in JsonErrors : CycleError(msg)
    /\ UNCHANGED <<tokenResolvers, wsOpen, net, sentTokens, sentDone,
                   firstTokenOf, completedBy, handed>>
    /\ UNCHANGED <<ovars, lvars, svars>>

\* The 'message' handler installed by setupWebSocketHandlers, for a push that
\* carries a token: the token is pushed to tokenQueue and counted; if a waiter
\* is queued, the oldest one is shifted and called, and it resolves its promise
\* with tokenQueue.shift(). Only the waiter of the cycle in progress still has
\* a race listening: runCycle then goes on after its first token.
\* Faulty handler, against which C39 is tested: the oldest waiter is called
\* before the token is pushed, so its tokenQueue.shift() finds the buffer as
\* it was (0 stands for undefined).
OnTokenWakesFirst(m) ==
    LET st == [stats EXCEPT !.totalTokensReceived = @ + 1]
    IN IF Len(tokenResolvers) > 0
          THEN LET w == Head(tokenResolvers)
                   got == IF Len(tokenQueue) > 0 THEN Head(tokenQueue) ELSE 0
                   rest == IF Len(tokenQueue) > 0 THEN Tail(tokenQueue) ELSE <<>>
               IN /\ tokenResolvers' = Tail(tokenResolvers)
                  /\ tokenQueue' = Append(rest, m.cyc)
                  /\ handed' = handed \cup
                        {[waiter |-> w, at |-> cycle, tok |-> got]}
                  /\ IF w = cycle /\ cpc = "waitToken"
                        THEN AfterFirstToken(st, got, doneResolved, doneBy)
                        ELSE /\ stats' = st
                             /\ UNCHANGED <<cpc, firstTokenOf, completedBy>>
                             /\ UNCHANGED tvars
          ELSE /\ tokenQueue' = Append(tokenQueue, m.cyc)
               /\ stats' = st
               /\ UNCHANGED <<tokenResolvers, handed, cpc, firstTokenOf,
                              completedBy>>
               /\ UNCHANGED tvars

OnTokenNewestWaiter(m) ==
    LET q  == Append(tokenQueue, m.cyc)
        st == [stats EXCEPT !.totalTokensReceived = @ + 1]
        n  == Len(tokenResolvers)
    IN IF n > 0
          THEN LET w == tokenResolvers[n]
               IN /\ tokenResolvers' = SubSeq(tokenResolvers, 1, n - 1)
                  /\ tokenQueue' = Tail(q)
                  /\ handed' = handed \cup
                        {[waiter |-> w, at |-> cycle, tok |-> Head(q)]}
                  /\ IF w = cycle /\ cpc = "waitToken"
                        THEN AfterFirstToken(st, Head(q), doneResolved, doneBy)
                        ELSE /\ stats' = st
                             /\ UNCHANGED <<cpc, firstTokenOf, completedBy>>
                             /\ UNCHANGED tvars
          ELSE /\ tokenQueue' = q
               /\ stats' = st
               /\ UNCHANGED <<tokenResolvers, handed, cpc, firstTokenOf,
                              completedBy>>
               /\ UNCHANGED tvars

OnToken(m) ==
    LET q  == Append(tokenQueue, m.cyc)
        st == [stats EXCEPT !.totalTokensReceived = @ + 1]
    IN IF Len(tokenResolvers) > 0
          THEN LET w == Head(tokenResolvers)
               IN /\ tokenResolvers' = Tail(tokenResolvers)
                  /\ tokenQueue' = Tail(q)
                  /\ handed' = handed \cup
                        {[waiter |-> w, at |-> cycle, tok |-> Head(q)]}
                  /\ IF w = cycle /\ cpc = "waitToken"
                        THEN AfterFirstToken(st, Head(q), doneResolved, doneBy)
                        ELSE /\ stats' = st
                             /\ UNCHANGED <<cpc, firstTokenOf, completedBy>>
                             /\ UNCHANGED tvars
          ELSE /\ tokenQueue' = q
               /\ stats' = st
               /\ UNCHANGED <<tokenResolvers, handed, cpc, firstTokenOf,
                              completedBy>>
               /\ UNCHANGED tvars

\* The same handler for a push that carries done: doneResolve() resolves the
\* donePromise installed by the latest reset (a second call changes nothing);
\* a runCycle waiting in the completion race goes on to response.json().
OnDone(m) ==
    LET by == IF doneResolved THEN doneBy ELSE m.cyc
    IN /\ doneResolved' = TRUE
       /\ doneBy' = by
       /\ IF cpc = "waitDone"
             THEN /\ cpc' = "json"
                  /\ completedBy' = [completedBy EXCEPT ![cycle] = by]
             ELSE UNCHANGED <<cpc, completedBy>>

\* The socket delivers the oldest message in flight to the 'message' handler.
OnMessage ==
    /\ wsOpen
    /\ Len(net) > 0
    /\ net' = Tail(net)
    /\ LET m == Head(net)
       IN IF m.kind = "token"
             THEN /\ OnToken(m)
                  /\ UNCHANGED <<doneResolved, doneBy>>
             ELSE /\ OnDone(m)
                  /\ UNCHANGED <<tokenQueue, tokenResolvers, stats, handed,
                                 firstTokenOf>>
                  /\ UNCHANGED tvars
    /\ UNCHANGED <<cycle, shouldReconnect, wsOpen, sentTokens, sentDone,
                   outcome>>
    /\ UNCHANGED <<ovars, lvars, svars>>

\* The messages the server has published so far.
Sent ==
    SumTo(sentTokens, CyclesPerClient) + Cardinality({k \in Cycles : sentDone[k]})

\* The server publishes a token of the response to request k on the session
\* channel. It can do so at any time after the request was issued, also after
\* the client has given up on cycle k.
PublishToken(k) ==
    /\ wsOpen
    /\ k \in 1..cycle
    /\ net' = Append(net, [kind |-> "token", cyc |-> k])
    /\ sentTokens' = [sentTokens EXCEPT ![k] = @ + 1]
    /\ UNCHANGED <<cpc, cycle, tokenQueue, tokenResolvers, doneResolved, stats,
                   shouldReconnect, wsOpen, sentDone, outcome, firstTokenOf,
                   doneBy, completedBy, handed>>
    /\ UNCHANGED <<ovars, lvars, svars, tvars>>

\* The same within the message budget of the model.
ServerToken(k) == Sent < MaxMsgs /\ PublishToken(k)

\* The server publishes the done marker of the response to request k.
PublishDone(k) ==
    /\ wsOpen
    /\ k \in 1..cycle
    /\ ~sentDone[k]
    /\ net' = Append(net, [kind |-> "done", cyc |-> k])
    /\ sentDone' = [sentDone EXCEPT ![k] = TRUE]
    /\ UNCHANGED <<cpc, cycle, tokenQueue, tokenResolvers, doneResolved, stats,
                   shouldReconnect, wsOpen, sentTokens, outcome, firstTokenOf,
                   doneBy, completedBy, handed>>
    /\ UNCHANGED <<ovars, lvars, svars, tvars>>

ServerDone(k) == Sent < MaxMsgs /\ PublishDone(k)

\* ------------------------------------- EmulatorClient: connect and disconnect
\* A socket delivers push messages to the coordinator when it is open and
\* setupWebSocketHandlers has installed a 'message' handler on it.
LiveSock(sk, h) == \E s \in SockIds : sk[s] = "open" /\ h[s] > 0

FreeSocks == {s \in SockIds : sock[s] = "none"}

\* The sockets and their handler sets after a step that left them as sk and h,
\* with this.ws = w and the reconnections pr: a closed socket that neither
\* this.ws nor a reconnection refers to is garbage, and its slot is free again.
SetSockets(sk, h, w, pr) ==
    LET kept == [s \in SockIds |->
                   IF sk[s] = "closed" /\ s # w /\ \A p \in ProcIds : pr[p].s # s
                      THEN "none" ELSE sk[s]]
    IN /\ sock' = kept
       /\ handlers' = [s \in SockIds |-> IF kept[s] = "none" THEN 0 ELSE h[s]]
FreeProcs == {p \in ProcIds : procs[p].pc = "idle"}

\* The n lowest elements of a set of numbers, and the position of one of them.
Lowest(S, n) == {x \in S : Cardinality({y \in S : y < x}) < n}
Rank(S, x) == Cardinality({y \in S : y < x}) + 1

\* What the lifecycle steps leave alone in the coordinator and its history.
CoordUnchanged ==
    UNCHANGED <<tokenQueue, tokenResolvers, doneResolved, net, sentTokens,
                sentDone, outcome, firstTokenOf, doneBy, completedBy, handed>>

\* catch of connect(): an error line, one connection error, connect() returns
\* false and run() takes endTime and returns the stats without disconnect().
ConnectRethrows(kind) ==
    /\ cpc' = "threw"
    /\ failures' = failures \cup {kind}
    /\ UNCHANGED <<stats, log>>

ConnectCatch(kind) ==
    /\ stats' = [stats EXCEPT !.connectionErrors = @ + 1]
    /\ log' = log \cup {"connectFailed"}
    /\ failures' = failures \cup {kind}
    /\ cpc' = "returned"

\* run(): startTime is taken, connect() finds sessionId empty and awaits the
\* POST of /api/sessions/create.
ConnectStart ==
    /\ cpc = "start"
    /\ cpc' = "creating"
    /\ CoordUnchanged
    /\ UNCHANGED <<cycle, stats, shouldReconnect, wsOpen>>
    /\ UNCHANGED <<ovars, lvars, svars, tvars>>

\* The POST resolved: response.json() is awaited.
SessionFetchOk ==
    /\ cpc = "creating"
    /\ cpc' = "parsing"
    /\ CoordUnchanged
    /\ UNCHANGED <<cycle, stats, shouldReconnect, wsOpen>>
    /\ UNCHANGED <<ovars, lvars, svars, tvars>>

\* The POST rejected.
SessionFetchFail ==
    /\ cpc = "creating"
    /\ ConnectCatch("sessionCreate")
    /\ CoordUnchanged
    /\ UNCHANGED <<cycle, shouldReconnect, wsOpen>>
    /\ UNCHANGED <<sessionId, ws, sock, handlers, procs, drops, deletes>>
    /\ UNCHANGED <<ovars, svars, tvars>>

\* The body parsed: sessionId and token are stored, and the WebSocket is
\* created with its connection timer armed.
SessionJsonOk ==
    /\ cpc = "parsing"
    /\ sessionId' = "sid"
    /\ sock' = [sock EXCEPT ![1] = "connecting"]
    /\ cpc' = "opening"
    /\ CoordUnchanged
    /\ UNCHANGED <<cycle, stats, shouldReconnect, wsOpen>>
    /\ UNCHANGED <<ws, handlers, procs, drops, log, failures, deletes>>
    /\ UNCHANGED <<ovars, svars, tvars>>

\* The body did not parse.
SessionJsonFail ==
    /\ cpc = "parsing"
    /\ ConnectCatch("sessionCreate")
    /\ CoordUnchanged
    /\ UNCHANGED <<cycle, shouldReconnect, wsOpen>>
    /\ UNCHANGED <<sessionId, ws, sock, handlers, procs, drops, deletes>>
    /\ UNCHANGED <<ovars, svars, tvars>>

\* 'open' of the socket of connect(): the timer is cleared, this.ws is set, the
\* connect command is sent and the first message on the socket is awaited,
\* with no timer.
ConnOpen ==
    /\ cpc = "opening"
    /\ sock[1] = "connecting"
    /\ sock' = [sock EXCEPT ![1] = "open"]
    /\ ws' = 1
    /\ cpc' = "handshake"
    /\ CoordUnchanged
    /\ UNCHANGED <<cycle, stats, shouldReconnect, wsOpen>>
    /\ UNCHANGED <<sessionId, handlers, procs, drops, log, failures, deletes>>
    /\ UNCHANGED <<ovars, svars, tvars>>

\* 'error' of the socket of connect() before it opened.
ConnError ==
    /\ cpc = "opening"
    /\ sock[1] = "connecting"
    /\ SetSockets([sock EXCEPT ![1] = "closed"], handlers, ws, procs)
    /\ ConnectCatch("socketOpen")
    /\ CoordUnchanged
    /\ UNCHANGED <<cycle, shouldReconnect, wsOpen>>
    /\ UNCHANGED <<sessionId, ws, procs, drops, deletes>>
    /\ UNCHANGED <<ovars, svars, tvars>>

\* The connection timer fired first. The socket is not closed: it goes on
\* connecting with nobody waiting for it.
ConnTimeout ==
    /\ cpc = "opening"
    /\ sock[1] = "connecting"
    /\ sock' = [sock EXCEPT ![1] = "abandoned"]
    /\ ConnectCatch("connectionTimeout")
    /\ CoordUnchanged
    /\ UNCHANGED <<cycle, shouldReconnect, wsOpen>>
    /\ UNCHANGED <<sessionId, ws, handlers, procs, drops, deletes>>
    /\ UNCHANGED <<ovars, svars, tvars>>

\* The for loop of run() is entered: runCycle of the first cycle runs up to
\* its first await, and run() awaits it.
EnterLoopNoAwait ==
    /\ cycle' = CyclesPerClient
    /\ ResetCoordinator
    /\ StartCycle
    /\ cpc' = "request"

EnterLoop ==
    /\ cycle' = 1
    /\ ResetCoordinator
    /\ StartCycle
    /\ cpc' = "request"

\* The first message on the socket of connect(): setupWebSocketHandlers
\* installs the handlers on this.ws, connect() returns true and run() enters
\* the first runCycle.
ConnReply ==
    /\ cpc = "handshake"
    /\ sock[1] = "open"
    /\ handlers' = [handlers EXCEPT ![ws] = @ + 1]
    /\ wsOpen' = LiveSock(sock, handlers')
    /\ EnterLoop
    /\ UNCHANGED <<tokenResolvers, stats, shouldReconnect, net, sentTokens,
                   sentDone, outcome, firstTokenOf, completedBy, handed>>
    /\ UNCHANGED <<sessionId, ws, sock, procs, drops, log, failures, deletes>>
    /\ UNCHANGED <<ovars, svars>>

\* The end of disconnect(): this.ws, if any, is closed and dropped. close()
\* on an open socket starts its closing handshake, and the socket emits
\* 'close' in a later task; on a socket that is going down already it does
\* nothing.
CloseSocket ==
    /\ ws' = 0
    /\ SetSockets([s \in SockIds |-> IF s = ws /\ sock[s] = "open"
                                        THEN "closing" ELSE sock[s]],
                  handlers, 0, procs)

\* catch around the session DELETE in disconnect(): a warning line.
DisconnectRethrows ==
    /\ cpc' = "threw"
    /\ failures' = failures \cup {"sessionClose"}
    /\ UNCHANGED <<log, ws, sock, handlers>>

DisconnectCatch ==
    /\ log' = log \cup {"closeSessionFailed"}
    /\ failures' = failures \cup {"sessionClose"}
    /\ cpc' = "returned"
    /\ CloseSocket

\* disconnect() after its DELETE resolved: this.ws, if any, is closed and
\* dropped; run() takes endTime and returns the stats. The 'close' event that
\* follows finds shouldReconnect false.
DeleteOk ==
    /\ cpc = "closing"
    /\ deletes' = deletes + 1
    /\ cpc' = "returned"
    /\ CloseSocket
    /\ wsOpen' = LiveSock(sock', handlers')
    /\ CoordUnchanged
    /\ UNCHANGED <<cycle, stats, shouldReconnect>>
    /\ UNCHANGED <<sessionId, procs, drops, log, failures>>
    /\ UNCHANGED <<ovars, svars, tvars>>

\* disconnect() after its DELETE rejected.
DeleteFail ==
    /\ cpc = "closing"
    /\ deletes' = deletes + 1
    /\ DisconnectCatch
    /\ wsOpen' = LiveSock(sock', handlers')
    /\ CoordUnchanged
    /\ UNCHANGED <<cycle, stats, shouldReconnect>>
    /\ UNCHANGED <<sessionId, procs, drops>>
    /\ UNCHANGED <<ovars, svars, tvars>>

\* ------------------------------------------ EmulatorClient: reconnection
\* reconnectWebSocket(maxRetries = 3)
MaxRetries == 3

\* The wait of the 'error' handler before it calls reconnectWebSocket(), ms.
ErrorDelay == 1000

\* The wait after the failed attempt of loop index attempt, in milliseconds:
\* Math.min(2 ** attempt * 1000, 10000).
BackoffDelayFixed(attempt) == 1000

BackoffDelay(attempt) ==
    IF 2 ^ attempt * 1000 < 10000 THEN 2 ^ attempt * 1000 ELSE 10000

\* The top of one iteration of the loop of reconnectWebSocket: a WebSocket is
\* created with its connection timer armed, and its 'open' is awaited.
Attempt(n, s) == [pc |-> "opening", attempt |-> n, s |-> s, wait |-> 0]

\* The 'error' handler installed by setupWebSocketHandlers, once per handler
\* set on the socket: otherErrors++ and, if shouldReconnect,
\* a wait of one second before reconnectWebSocket().
OnSocketError(s) ==
    LET n == handlers[s]
        started == IF shouldReconnect THEN Lowest(FreeProcs, n) ELSE {}
    IN /\ shouldReconnect => Cardinality(FreeProcs) >= n
       /\ stats' = [stats EXCEPT !.otherErrors = @ + n]
       /\ procs' = [p \in ProcIds |->
                      IF p \in started
                         THEN [pc |-> "delay", attempt |-> 0, s |-> 0,
                               wait |-> ErrorDelay]
                         ELSE procs[p]]

\* The 'close' handler installed by setupWebSocketHandlers, once per handler
\* set on the socket: if shouldReconnect,
\* reconnectWebSocket() runs up to its first await.
OnSocketCloseUnguarded(s, sk) ==
    LET n == handlers[s]
        started == Lowest(FreeProcs, n)
        fresh == Lowest(FreeSocks \ {s}, n)
    IN /\ Cardinality(FreeProcs) >= n
       /\ Cardinality(FreeSocks \ {s}) >= n
       /\ procs' = [p \in ProcIds |->
                      IF p \in started
                         THEN Attempt(0, CHOOSE t \in fresh :
                                 Rank(fresh, t) = Rank(started, p))
                         ELSE procs[p]]
       /\ SetSockets([t \in SockIds |->
                         IF t \in fresh THEN "connecting" ELSE sk[t]],
                     handlers, ws, procs')

OnSocketClose(s, sk) ==
    LET n == handlers[s]
        started == IF shouldReconnect THEN Lowest(FreeProcs, n) ELSE {}
        fresh == Lowest(FreeSocks \ {s}, n)
    IN /\ shouldReconnect => /\ Cardinality(FreeProcs) >= n
                             /\ Cardinality(FreeSocks \ {s}) >= n
       /\ procs' = [p \in ProcIds |->
                      IF p \in started
                         THEN Attempt(0, CHOOSE t \in fresh :
                                 Rank(fresh, t) = Rank(started, p))
                         ELSE procs[p]]
       /\ SetSockets([t \in SockIds |->
                         IF shouldReconnect /\ t \in fresh THEN "connecting"
                         ELSE sk[t]],
                     handlers, ws, procs')

\* The transport reports an error on a socket that is open or that
\* disconnect() is closing; its close follows.
SockError(s) ==
    /\ sock[s] \in {"open", "closing"}
    /\ drops < MaxDrops
    /\ drops' = drops + 1
    /\ sock' = [sock EXCEPT ![s] = "erroring"]
    /\ OnSocketError(s)
    /\ wsOpen' = LiveSock(sock', handlers)
    /\ CoordUnchanged
    /\ UNCHANGED <<cpc, cycle, shouldReconnect>>
    /\ UNCHANGED <<sessionId, ws, handlers, log, failures, deletes>>
    /\ UNCHANGED <<ovars, svars, tvars>>

\* A socket emits 'close': one that was open (the server or the proxy closed
\* it), one that reported an error before, or one that disconnect() closed.
SockClose(s) ==
    /\ sock[s] \in {"open", "erroring", "closing"}
    /\ sock[s] = "open" => drops < MaxDrops
    /\ drops' = IF sock[s] = "open" THEN drops + 1 ELSE drops
    /\ OnSocketClose(s, [sock EXCEPT ![s] = "closed"])
    /\ wsOpen' = LiveSock(sock', handlers')
    /\ CoordUnchanged
    /\ UNCHANGED <<cpc, cycle, stats, shouldReconnect>>
    /\ UNCHANGED <<sessionId, ws, log, failures, deletes>>
    /\ UNCHANGED <<ovars, svars, tvars>>

\* The one-second timer of the 'error' handler fired: reconnectWebSocket()
\* runs up to its first await. shouldReconnect is not read again.
ReconnectDelayDone(p) ==
    /\ procs[p].pc = "delay"
    /\ FreeSocks # {}
    /\ LET s == CHOOSE t \in FreeSocks : \A u \in FreeSocks : t <= u
       IN /\ procs' = [procs EXCEPT ![p] = Attempt(0, s)]
          /\ sock' = [sock EXCEPT ![s] = "connecting"]
          /\ handlers' = [handlers EXCEPT ![s] = 0]
    /\ CoordUnchanged
    /\ UNCHANGED <<cpc, cycle, stats, shouldReconnect, wsOpen>>
    /\ UNCHANGED <<sessionId, ws, drops, log, failures, deletes>>
    /\ UNCHANGED <<ovars, svars, tvars>>

\* 'open' of the socket of an attempt: the timer is cleared, this.ws is set to
\* the new socket, the connect command is sent and the first message on the
\* socket is awaited, with no timer.
ReconnectOpen(p) ==
    /\ procs[p].pc = "opening"
    /\ sock[procs[p].s] = "connecting"
    /\ ws' = procs[p].s
    /\ procs' = [procs EXCEPT ![p].pc = "handshake"]
    /\ SetSockets([sock EXCEPT ![procs[p].s] = "open"], handlers, ws', procs')
    /\ wsOpen' = LiveSock(sock', handlers')
    /\ CoordUnchanged
    /\ UNCHANGED <<cpc, cycle, stats, shouldReconnect>>
    /\ UNCHANGED <<sessionId, drops, log, failures, deletes>>
    /\ UNCHANGED <<ovars, svars, tvars>>

\* catch of one iteration: a backoff wait follows unless this
\* was the last attempt, after which reconnectWebSocket() logs its failure
\* and returns false.
AttemptFailed(p) ==
    IF procs[p].attempt < MaxRetries - 1
       THEN /\ procs' = [procs EXCEPT ![p].pc = "backoff", ![p].s = 0,
                                      ![p].wait = BackoffDelay(procs[p].attempt)]
            /\ UNCHANGED log
       ELSE /\ procs' = [procs EXCEPT ![p] = IdleProc]
            /\ log' = log \cup {"reconnectFailed"}

\* 'error' of the socket of an attempt before it opened, or its connection
\* timer firing first (the socket then goes on connecting with nobody waiting
\* for it; it is not followed further).
ReconnectOpenFail(p) ==
    /\ procs[p].pc = "opening"
    /\ sock[procs[p].s] = "connecting"
    /\ AttemptFailed(p)
    /\ SetSockets([sock EXCEPT ![procs[p].s] = "closed"], handlers, ws, procs')
    /\ CoordUnchanged
    /\ UNCHANGED <<cpc, cycle, stats, shouldReconnect, wsOpen>>
    /\ UNCHANGED <<sessionId, ws, drops, failures, deletes>>
    /\ UNCHANGED <<ovars, svars, tvars>>

\* The backoff timer fired: the next iteration starts.
ReconnectBackoffDone(p) ==
    /\ procs[p].pc = "backoff"
    /\ FreeSocks # {}
    /\ LET s == CHOOSE t \in FreeSocks : \A u \in FreeSocks : t <= u
       IN /\ procs' = [procs EXCEPT ![p] = Attempt(procs[p].attempt + 1, s)]
          /\ sock' = [sock EXCEPT ![s] = "connecting"]
          /\ handlers' = [handlers EXCEPT ![s] = 0]
    /\ CoordUnchanged
    /\ UNCHANGED <<cpc, cycle, stats, shouldReconnect, wsOpen>>
    /\ UNCHANGED <<sessionId, ws, drops, log, failures, deletes>>
    /\ UNCHANGED <<ovars, svars, tvars>>

\* The first message on the socket of an attempt: setupWebSocketHandlers
\* installs the handlers on this.ws (on nothing if this.ws is null),
\* reconnectionCount++ (ClientStats declares no such field: undefined + 1),
\* and reconnectWebSocket() returns true.
ReconnectReply(p) ==
    /\ procs[p].pc = "handshake"
    /\ sock[procs[p].s] = "open"
    /\ handlers' = IF ws # 0 THEN [handlers EXCEPT ![ws] = @ + 1] ELSE handlers
    /\ stats' = [stats EXCEPT !.reconnectionCount = "NaN"]
    /\ procs' = [procs EXCEPT ![p] = IdleProc]
    /\ wsOpen' = LiveSock(sock, handlers')
    /\ CoordUnchanged
    /\ UNCHANGED <<cpc, cycle, shouldReconnect>>
    /\ UNCHANGED <<sessionId, ws, sock, drops, log, failures, deletes>>
    /\ UNCHANGED <<ovars, svars, tvars>>

\* ------------------------------------------------- orchestrator, at rest
OrchIdle ==
    /\ limiter = TRUE
    /\ numClients = 0
    /\ maxConcurrent = 0
    /\ opc = "idle"
    /\ permits = 0
    /\ queue = <<>>
    /\ cstate = [c \in ClientIds |-> "new"]
    /\ clientsStats = <<>>
    /\ running = FALSE
    /\ progressInterval = FALSE
    /\ report = NoReport
    /\ ticket = [c \in ClientIds |-> 0]
    /\ releases = [c \in ClientIds |-> 0]
    /\ progressLog = 0
    /\ clearCount = 0

\* ------------------------------------------------- one client: specification
\* new EmulatorClient(clientId, config)
ClientInit ==
    /\ cpc = "start"
    /\ cycle = 0
    /\ tokenQueue = <<>>
    /\ tokenResolvers = <<>>
    /\ doneResolved = FALSE
    /\ stats = NewClientStats
    /\ shouldReconnect = TRUE
    /\ wsOpen = FALSE
    /\ net = <<>>
    /\ sentTokens = [k \in Cycles |-> 0]
    /\ sentDone = [k \in Cycles |-> FALSE]
    /\ outcome = [k \in Cycles |-> "none"]
    /\ firstTokenOf = [k \in Cycles |-> 0]
    /\ doneBy = 0
    /\ completedBy = [k \in Cycles |-> 0]
    /\ handed = {}
    /\ elapsed = 0
    /\ deadline = 0
    /\ runCalls = 0
    /\ sessionId = ""
    /\ ws = 0
    /\ sock = [s \in SockIds |-> "none"]
    /\ handlers = [s \in SockIds |-> 0]
    /\ procs = [p \in ProcIds |-> IdleProc]
    /\ drops = 0
    /\ log = {}
    /\ failures = {}
    /\ deletes = 0

\* No call of percentile is modelled.
StatsIdle ==
    /\ samples = <<>>
    /\ pct = 0
    /\ pvalue = NoValue

Init == ClientInit /\ OrchIdle /\ StatsIdle
Next ==
    \/ ConnectStart
    \/ SessionFetchOk
    \/ SessionFetchFail
    \/ SessionJsonOk
    \/ SessionJsonFail
    \/ ConnOpen
    \/ ConnError
    \/ ConnTimeout
    \/ ConnReply
    \/ RequestResolve
    \/ RequestReject
    \/ RequestTimeout
    \/ TokenTimeout
    \/ DoneTimeout
    \/ JsonOk
    \/ JsonFail
    \/ DeleteOk
    \/ DeleteFail
    \/ OnMessage
    \/ \E k \in Cycles : ServerToken(k)
    \/ \E k \in Cycles : ServerDone(k)

Spec == Init /\ [][Next]_vars

\* ------------------------------------- one client on a transport that fails
\* The same client when open sockets can report errors and close: the socket
\* handlers and reconnectWebSocket() run beside run(). The server answers the
\* connect commands and the /api/run requests but publishes nothing on the
\* session channel here, so a cycle ends in its first-token wait.
FaultNext ==
    \/ ConnectStart
    \/ SessionFetchOk
    \/ SessionFetchFail
    \/ SessionJsonOk
    \/ SessionJsonFail
    \/ ConnOpen
    \/ ConnError
    \/ ConnTimeout
    \/ ConnReply
    \/ RequestResolve
    \/ TokenTimeout
    \/ DeleteOk
    \/ DeleteFail
    \/ \E s \in SockIds : SockError(s)
    \/ \E s \in SockIds : SockClose(s)
    \/ \E p \in ProcIds : ReconnectDelayDone(p)
    \/ \E p \in ProcIds : ReconnectOpen(p)
    \/ \E p \in ProcIds : ReconnectOpenFail(p)
    \/ \E p \in ProcIds : ReconnectBackoffDone(p)
    \/ \E p \in ProcIds : ReconnectReply(p)

FaultSpec == Init /\ [][FaultNext]_vars

\* ------------------------------------------- one client, with time passing
\* Time passes while a race of runCycle is in progress. A timer whose time has
\* come fires before more time passes.
Tick ==
    /\ cpc \in {"request", "waitToken", "waitDone"}
    /\ elapsed < deadline
    /\ elapsed' = elapsed + 1
    /\ UNCHANGED <<deadline, runCalls>>
    /\ UNCHANGED <<cvars, ovars, lvars, svars>>

\* A timer fires when its time has come.
RequestTimerFires == elapsed = deadline /\ RequestTimeout
TokenTimerFires == elapsed = deadline /\ TokenTimeout
DoneTimerFires == elapsed = deadline /\ DoneTimeout

\* The client on a transport and an API that do not fail, but can be slow.
TimedNext ==
    \/ ConnectStart
    \/ SessionFetchOk
    \/ SessionJsonOk
    \/ ConnOpen
    \/ ConnReply
    \/ RequestResolve
    \/ RequestTimerFires
    \/ TokenTimerFires
    \/ DoneTimerFires
    \/ JsonOk
    \/ DeleteOk
    \/ OnMessage
    \/ \E k \in Cycles : ServerToken(k)
    \/ \E k \in Cycles : ServerDone(k)
    \/ Tick

TimedSpec == Init /\ [][TimedNext]_vars

\* ------------------------------------------------- properties of one client
\* C1: a token of cycle k that arrives after cycle k has timed out never ends
\* the first-token wait of cycle k+1.
C1_StaleTokenNeverSatisfiesNextCycle ==
    \A j \in Cycles :
        (j > 1 /\ outcome[j - 1] \in TimeoutOutcomes) => firstTokenOf[j] # j - 1

\* C2: a done marker of cycle k that arrives after cycle k has timed out never
\* resolves the completion wait of cycle k+1: a cycle is counted as completed
\* only on a done marker of its own.
C2_StaleDoneNeverCompletesNextCycle ==
    \A j \in Cycles :
        /\ (j > 1 /\ outcome[j - 1] \in TimeoutOutcomes) => completedBy[j] # j - 1
        /\ outcome[j] = "completed" => completedBy[j] = j

\* C3: a queued token waiter is handed a token only while its own wait is
\* still open: never a waiter left behind by an earlier, timed-out cycle.
C3_TokenNeverHandedToAbandonedWaiter ==
    \A h \in handed : h.waiter = h.at

\* ------------------------------------------------------------ Semaphore
\* A semaphore is [permits, queue]; acquire and release also tell which
\* blocked or calling client they let through (admitted).

\* Faulty acquire, against which C40 is tested: the caller is let through
\* without taking a permit.
AcquireKeepsPermit(sem, c) ==
    IF sem.permits > 0
       THEN [permits |-> sem.permits, queue |-> sem.queue, admitted |-> {c}]
       ELSE [permits |-> sem.permits, queue |-> Append(sem.queue, c),
             admitted |-> {}]

\* Semaphore.acquire() called by client c.
Acquire(sem, c) ==
    IF sem.permits > 0
       THEN [permits |-> sem.permits - 1, queue |-> sem.queue, admitted |-> {c}]
       ELSE [permits |-> sem.permits, queue |-> Append(sem.queue, c),
             admitted |-> {}]

\* Faulty release, against which C5 is tested: the newest queued resolver is
\* taken (pop instead of shift).
ReleaseLifo(sem) ==
    LET p == sem.permits + 1
        n == Len(sem.queue)
    IN IF n > 0
          THEN [permits |-> p - 1, queue |-> SubSeq(sem.queue, 1, n - 1),
                admitted |-> {sem.queue[n]}]
          ELSE [permits |-> p, queue |-> sem.queue, admitted |-> {}]

\* Faulty release, against which C8 is tested: the permit is returned but no
\* queued resolver is called.
ReleaseNoHandOff(sem) ==
    [permits |-> sem.permits + 1, queue |-> sem.queue, admitted |-> {}]

\* Semaphore.release(): permits++, then the oldest queued resolver, if any,
\* takes the permit back and is resolved.
Release(sem) ==
    LET p == sem.permits + 1
    IN IF Len(sem.queue) > 0
          THEN [permits |-> p - 1, queue |-> Tail(sem.queue),
                admitted |-> {Head(sem.queue)}]
          ELSE [permits |-> p, queue |-> sem.queue, admitted |-> {}]

\* -------------------------------------------------------------- statistics.ts
\* A JavaScript number that is not an integer is kept as a fraction in lowest
\* terms with a positive denominator; the operations are exact.
RECURSIVE GCD(_, _)
GCD(a, b) == IF b = 0 THEN a ELSE GCD(b, a % b)

\* The element of a set of one element. TheOne({F(x) : x \in {e}}) is F(e)
\* with e evaluated once, as the initialiser of a const declaration is.
TheOne(S) == CHOOSE v \in S : TRUE

\* The number a / b (b > 0) as a fraction in lowest terms.
Ratio(a, b) ==
    TheOne({LET g == GCD(IF ab[1] < 0 THEN -ab[1] ELSE ab[1], ab[2])
            IN [num |-> ab[1] \div g, den |-> ab[2] \div g] : ab \in {<<a, b>>}})

Zero == Ratio(0, 1)

Times(r, k) == TheOne({Ratio(v.num * k, v.den) : v \in {r}})

\* [...arr].sort((a, b) => a - b): a copy of arr in ascending order, equal
\* elements keeping their order (Array.prototype.sort is stable). The element
\* at position j of arr goes to the position given by the number of elements
\* that sort before it.
SortedUnsorted(arr) == arr

Sorted(arr) ==
    LET n == Len(arr)
        before(j) == {k \in 1..n : arr[k] < arr[j] \/ (arr[k] = arr[j] /\ k < j)}
    IN TheOne({[i \in 1..n |-> arr[CHOOSE j \in 1..n : rank[j] = i - 1]] :
                  rank \in {[j \in 1..n |-> Cardinality(before(j))]}})

\* The rest of percentile(arr, p) once arr is sorted and known not to be
\* empty, with p in whole percent. index = (p / 100) * (n - 1) is kept as
\* index100 = p * (n - 1), so Number.isInteger(index) is index100 % 100 = 0,
\* Math.floor(index) is index100 \div 100 and weight is (index100 % 100) / 100.
\* Sequences are 1-based: sorted[i] is at i + 1.
InterpolateNearest(sorted, p) ==
    Ratio(sorted[(p * (Len(sorted) - 1)) \div 100 + 1], 1)

Interpolate(sorted, p) ==
    LET index100 == p * (Len(sorted) - 1)
    IN IF index100 % 100 = 0
          THEN Ratio(sorted[index100 \div 100 + 1], 1)
          ELSE LET lower == index100 \div 100
                   upper == lower + 1
                   weight100 == index100 % 100
               IN Ratio(sorted[lower + 1] * (100 - weight100)
                           + sorted[upper + 1] * weight100, 100)

\* What a number that is not one looks like here (undefined, NaN).
NaN == [num |-> 1, den |-> 0]

\* percentile(arr, p)
PercentileUnguarded(arr, p) ==
    IF Len(arr) = 0 THEN NaN ELSE Interpolate(Sorted(arr), p)

Percentile(arr, p) ==
    IF Len(arr) = 0 THEN Zero
    ELSE TheOne({Interpolate(sorted, p) : sorted \in {Sorted(arr)}})

\* ------------------------------------------------------ EmulatorOrchestrator
\* What client.run() can return to runClient, by kind of run: every cycle
\* completed; connect() failed (no cycle attempted); connected but every
\* cycle timed out.
RunKinds == {"ok", "connectionFailed", "allCyclesFailed"}

\* The latency sample that cycle i of client c records, in whole units.
LatencyOf(c, i) == 10 * (((c + i) % 4) + 1)

\* The ClientStats of client c after a run of the given kind that took
\* startTime at times[1] and endTime at times[2]. Besides RunKinds:
\* "tokenTimeouts", every request was answered and every first-token wait
\* timed out; "fresh", a ClientStats whose client never ran.
ClientRecord(c, kind, times) ==
    LET all == [i \in 1..CyclesPerClient |-> LatencyOf(c, i)]
    IN [clientId |-> c,
        requestLatencies |-> IF kind \in {"ok", "tokenTimeouts"} THEN all ELSE <<>>,
        tokenLatencies   |-> IF kind = "ok" THEN all ELSE <<>>,
        cyclesCompleted  |-> IF kind = "ok" THEN CyclesPerClient ELSE 0,
        totalTokensReceived |-> IF kind = "ok" THEN CyclesPerClient ELSE 0,
        totalRequests    |-> IF kind \in {"ok", "tokenTimeouts"}
                                THEN CyclesPerClient ELSE 0,
        connectionErrors |-> IF kind = "connectionFailed" THEN 1 ELSE 0,
        timeoutErrors    |-> IF kind \in {"allCyclesFailed", "tokenTimeouts"}
                                THEN CyclesPerClient ELSE 0,
        otherErrors      |-> 0,
        startTime        |-> times[1],
        endTime          |-> times[2]]

RunResult(c, kind) == ClientRecord(c, kind, <<1, 2>>)

\* Faulty run(), against which C9 is tested: a failed connect() is thrown to
\* the caller instead of being returned in the stats.
RunSettlesThrowsOnFailure(kind) ==
    IF kind = "connectionFailed" THEN "rejected" ELSE "fulfilled"

\* How the promise of client.run() settles: run() catches every failure and
\* returns its stats, so the promise is fulfilled whatever the kind of run.
RunSettles(kind) == "fulfilled"

SumSeqFirstOnly(q) == IF q = <<>> THEN 0 ELSE Head(q)

RECURSIVE SumSeq(_)
SumSeq(q) == TheOne({IF v = <<>> THEN 0 ELSE Head(v) + SumSeq(Tail(v)) : v \in {q}})

\* Math.min(...xs) and Math.max(...xs): Infinity and -Infinity when xs is
\* empty. inf is 1 for Infinity, -1 for -Infinity, 0 for the number val.
Num(n) == [inf |-> 0, val |-> n]

MathMin(xs) ==
    IF xs = <<>> THEN [inf |-> 1, val |-> 0]
    ELSE Num(CHOOSE x \in {xs[i] : i \in 1..Len(xs)} :
                \A i \in 1..Len(xs) : x <= xs[i])

MathMax(xs) ==
    IF xs = <<>> THEN [inf |-> -1, val |-> 0]
    ELSE Num(CHOOSE x \in {xs[i] : i \in 1..Len(xs)} :
                \A i \in 1..Len(xs) : x >= xs[i])

\* a > b
Greater(a, b) == IF a.inf # b.inf THEN a.inf > b.inf
                 ELSE a.inf = 0 /\ a.val > b.val

\* clientStats.filter(s => s.startTime > 0)
Valid(list) == SelectSeq(list, LAMBDA s : s.startTime > 0)

\* The latency samples of every entry, in the order of the list.
RECURSIVE Flatten(_)
Flatten(qs) ==
    TheOne({IF v = <<>> THEN <<>> ELSE Head(v) \o Flatten(Tail(v)) : v \in {qs}})

\* const duration = end > start ? end - start : 0
DurationSummed(list) ==
    SumSeq([i \in 1..Len(list) |-> list[i].endTime - list[i].startTime])

Duration(list) ==
    TheOne({IF Greater(se[2], se[1]) THEN se[2].val - se[1].val ELSE 0 :
               se \in {TheOne({<<MathMin([i \in 1..Len(valid) |-> valid[i].startTime]),
                                  MathMax([i \in 1..Len(valid) |-> valid[i].endTime])>> :
                                   valid \in {Valid(list)}})}})

\* duration > 0 ? total / duration : 0
Rate(total, duration) == IF duration > 0 THEN Ratio(total, duration) ELSE Zero

\* The counts and sums that fromClientStats takes over the entries: the loop
\* over clientStats and the reduce for totalCycles.
CountsOf(list) ==
    LET N == Len(list)
        errs(s) == s.connectionErrors + s.timeoutErrors + s.otherErrors
    IN [totalClients |-> N,
        totalCycles  |-> SumSeq([i \in 1..N |-> list[i].cyclesCompleted]),
        totalErrors  |-> SumSeq([i \in 1..N |-> errs(list[i])]),
        successfulConnections |->
            Cardinality({i \in 1..N : list[i].connectionErrors = 0}),
        failedConnections |->
            Cardinality({i \in 1..N : list[i].connectionErrors > 0})]

\* AggregatedStats.fromClientStats
FromClientStats(clientStats) ==
    LET Report(list, counts, totalTokens, totalRequests,
               allRequestLatencies, allTokenLatencies, duration) ==
            [totalClients |-> Len(list),
             totalCycles  |-> counts.totalCycles,
             totalDuration |-> duration,
             requestsPerSecond |-> Rate(totalRequests, duration),
             tokensPerSecond |-> Rate(totalTokens, duration),
             cyclesPerSecond |-> Rate(counts.totalCycles, duration),
             requestLatencyP50 |-> Times(Percentile(allRequestLatencies, 50), 1000),
             requestLatencyP95 |-> Times(Percentile(allRequestLatencies, 95), 1000),
             requestLatencyP99 |-> Times(Percentile(allRequestLatencies, 99), 1000),
             requestLatencyMax |->
                 IF Len(allRequestLatencies) > 0
                    THEN Ratio(MathMax(allRequestLatencies).val * 1000, 1)
                    ELSE Zero,
             tokenLatencyP50 |-> Times(Percentile(allTokenLatencies, 50), 1000),
             tokenLatencyP95 |-> Times(Percentile(allTokenLatencies, 95), 1000),
             tokenLatencyP99 |-> Times(Percentile(allTokenLatencies, 99), 1000),
             totalErrors  |-> counts.totalErrors,
             successfulConnections |-> counts.successfulConnections,
             failedConnections |-> counts.failedConnections]
        Consts(list) ==
            LET N == Len(list)
            IN <<list, CountsOf(list),
                 SumSeq([i \in 1..N |-> list[i].totalTokensReceived]),
                 SumSeq([i \in 1..N |-> list[i].totalRequests]),
                 Flatten([i \in 1..N |-> list[i].requestLatencies]),
                 Flatten([i \in 1..N |-> list[i].tokenLatencies]),
                 Duration(list)>>
    IN IF Len(clientStats) = 0
       THEN [totalClients |-> 0, totalCycles |-> 0, totalDuration |-> 0,
             requestsPerSecond |-> Zero, tokensPerSecond |-> Zero,
             cyclesPerSecond |-> Zero,
             requestLatencyP50 |-> Zero, requestLatencyP95 |-> Zero,
             requestLatencyP99 |-> Zero, requestLatencyMax |-> Zero,
             tokenLatencyP50 |-> Zero, tokenLatencyP95 |-> Zero,
             tokenLatencyP99 |-> Zero,
             successfulConnections |-> 0, failedConnections |-> 0,
             totalErrors |-> 0]
       ELSE TheOne({Report(c[1], c[2], c[3], c[4], c[5], c[6], c[7]) :
                       c \in {TheOne({Consts(list) : list \in {clientStats}})}})

\* runClient(i, semaphore) of the orchestrator with the limiter, up to its
\* first suspension, on the state o of the for loop ([permits, queue, cstate,
\* ticket]): await semaphore.acquire().
RunClientEnterLimited(i, o) ==
    LET a == Acquire([permits |-> o.permits, queue |-> o.queue], i)
    IN [permits |-> a.permits,
        queue   |-> a.queue,
        cstate  |-> [o.cstate EXCEPT ![i] =
                        IF i \in a.admitted THEN "running" ELSE "waiting"],
        ticket  |-> [o.ticket EXCEPT ![i] = i + 1]]

\* runClient(i) of orchestrator.ts: the client is created and run() is called
\* at once; nothing is acquired.
RunClientEnterPlain(i, o) ==
    [permits |-> o.permits,
     queue   |-> o.queue,
     cstate  |-> [o.cstate EXCEPT ![i] = "running"],
     ticket  |-> [o.ticket EXCEPT ![i] = i + 1]]

RunClientEnter(i, o) ==
    IF limiter THEN RunClientEnterLimited(i, o) ELSE RunClientEnterPlain(i, o)

\* The for loop of run(): tasks.push(this.runClient(i, ...)) for i < numClients.
RECURSIVE SpawnAll(_, _)
SpawnAll(i, o) ==
    IF i >= numClients THEN o ELSE SpawnAll(i + 1, RunClientEnter(i, o))

\* Faulty wait, against which C7 is tested: run() goes on as soon as one task
\* is fulfilled (Promise.race in place of Promise.all).
AnyTaskFulfilled(cs) == \E c \in 0..(numClients - 1) : cs[c] = "settled"

\* await Promise.all(tasks) goes on once every task is fulfilled.
AllTasksFulfilled(cs) == \A c \in 0..(numClients - 1) : cs[c] = "settled"

\* Faulty end of run(), against which C10 is tested: the timer is left armed.
ClearProgressNever(armed) ==
    [interval |-> armed, cleared |-> 0]

\* if (this.progressInterval) { clearInterval(...); this.progressInterval = null }
ClearProgress(armed) ==
    [interval |-> FALSE, cleared |-> IF armed THEN 1 ELSE 0]

\* run() after await Promise.all(tasks): running is cleared, the progress timer
\* is cancelled, the report is computed from clientsStats and printed.
AfterAllTasks(list, armed) ==
    /\ running' = FALSE
    /\ progressInterval' = ClearProgress(armed).interval
    /\ clearCount' = clearCount + ClearProgress(armed).cleared
    /\ report' = FromClientStats(list)
    /\ opc' = "done"

\* Faulty exit of runClient, against which C6 is tested: release() is called at
\* the end of the try block and again in the finally block.
RunClientExitTwice(sem, res) ==
    LET once == Release(sem)
        twice == Release([permits |-> once.permits, queue |-> once.queue])
    IN [sem |-> [permits |-> twice.permits, queue |-> twice.queue,
                 admitted |-> once.admitted \cup twice.admitted],
        calls |-> 2]

\* The exit of runClient of the orchestrator with the limiter, once
\* client.run() has settled: the finally block calls release() once, whether
\* run() returned (res = "fulfilled") or threw.
\* calls: the number of release() calls made.
RunClientExitLimited(sem, res) ==
    [sem |-> Release(sem), calls |-> 1]

\* The exit of runClient of orchestrator.ts: there is nothing to release.
RunClientExitPlain(sem, res) ==
    [sem |-> [permits |-> sem.permits, queue |-> sem.queue, admitted |-> {}],
     calls |-> 0]

RunClientExit(sem, res) ==
    IF limiter THEN RunClientExitLimited(sem, res)
               ELSE RunClientExitPlain(sem, res)

\* run() up to await Promise.all(tasks): running is set, the progress timer is
\* armed, the semaphore is created with maxConcurrentClients permits and every
\* runClient is started. With no client at all Promise.all([]) is fulfilled at
\* once.
OrchRun ==
    /\ opc = "idle"
    /\ LET o == SpawnAll(0, [permits |-> maxConcurrent, queue |-> <<>>,
                             cstate |-> cstate, ticket |-> ticket])
       IN /\ permits' = o.permits
          /\ queue' = o.queue
          /\ cstate' = o.cstate
          /\ ticket' = o.ticket
          /\ IF AllTasksFulfilled(o.cstate)
                THEN AfterAllTasks(clientsStats, TRUE)
                ELSE /\ running' = TRUE
                     /\ progressInterval' = TRUE
                     /\ opc' = "awaiting"
                     /\ UNCHANGED <<report, clearCount>>
    /\ UNCHANGED <<limiter, numClients, maxConcurrent, clientsStats, releases,
                   progressLog>>
    /\ UNCHANGED <<cvars, lvars, svars, tvars>>

\* client.run() of client c settles and runClient goes on: the stats are
\* pushed to clientsStats, the slot is released (which admits the oldest
\* blocked client) and the task is fulfilled; a rejected run() pushes nothing
\* and rejects the task, and with it Promise.all and run(). When this was the
\* last task, run() goes on after Promise.all.
\* res: how run() settled; rec: the ClientStats it returned.
RunClientAfterRun(c, res, rec) ==
    /\ opc = "awaiting"
    /\ c \in 0..(numClients - 1)
    /\ cstate[c] = "running"
    /\ LET list == IF res = "fulfilled"
                      THEN Append(clientsStats, rec)
                      ELSE clientsStats
           x    == RunClientExit([permits |-> permits, queue |-> queue], res)
           cs   == [d \in ClientIds |->
                      IF d = c THEN (IF res = "fulfilled" THEN "settled"
                                                         ELSE "rejected")
                      ELSE IF d \in x.sem.admitted THEN "running"
                      ELSE cstate[d]]
       IN /\ clientsStats' = list
          /\ permits' = x.sem.permits
          /\ queue' = x.sem.queue
          /\ releases' = [releases EXCEPT ![c] = @ + x.calls]
          /\ cstate' = cs
          /\ IF res # "fulfilled"
                THEN /\ opc' = "rejected"
                     /\ UNCHANGED <<running, progressInterval, report,
                                    clearCount>>
                ELSE IF AllTasksFulfilled(cs)
                THEN AfterAllTasks(list, progressInterval)
                ELSE UNCHANGED <<opc, running, progressInterval, report,
                                 clearCount>>
    /\ UNCHANGED <<limiter, numClients, maxConcurrent, ticket, progressLog>>

\* The same with the run of the client reduced to its kind.
ClientSettle(c, kind) ==
    /\ RunClientAfterRun(c, RunSettles(kind), RunResult(c, kind))
    /\ UNCHANGED <<cvars, lvars, svars, tvars>>

\* The setInterval callback: if (this.running) logProgress(), which prints
\* nothing while clientsStats is empty.
ProgressTick ==
    /\ progressInterval
    /\ opc \in {"awaiting", "done"}
    /\ progressLog < MaxTicks
    /\ progressLog' = IF running /\ Len(clientsStats) > 0
                         THEN progressLog + 1 ELSE progressLog
    /\ UNCHANGED <<limiter, numClients, maxConcurrent, opc, permits,
                   queue, cstate, clientsStats, running, progressInterval,
                   report, ticket, releases, clearCount>>
    /\ UNCHANGED <<cvars, lvars, svars, tvars>>

\* new EmulatorOrchestrator(config), for every configuration within the bounds
\* and both orchestrators.
OrchInit ==
    /\ ClientInit
    /\ StatsIdle
    /\ limiter \in BOOLEAN
    /\ numClients \in 0..MaxClients
    /\ maxConcurrent \in 0..MaxConcurrent
    /\ opc = "idle"
    /\ permits = 0
    /\ queue = <<>>
    /\ cstate = [c \in ClientIds |-> "new"]
    /\ clientsStats = <<>>
    /\ running = FALSE
    /\ progressInterval = FALSE
    /\ report = NoReport
    /\ ticket = [c \in ClientIds |-> 0]
    /\ releases = [c \in ClientIds |-> 0]
    /\ progressLog = 0
    /\ clearCount = 0

OrchNext ==
    \/ OrchRun
    \/ \E c \in ClientIds, kind \in RunKinds : ClientSettle(c, kind)
    \/ ProgressTick

OrchSpec == OrchInit /\ [][OrchNext]_vars

\* Every started task goes on when it can: a client whose run() settles, and
\* run() itself. The progress timer needs no fairness.
OrchFairSpec ==
    /\ OrchSpec
    /\ WF_vars(OrchRun)
    /\ \A c \in ClientIds : WF_vars(\E kind \in RunKinds : ClientSettle(c, kind))

\* ------------------------------------------- the whole run, all succeeding
\* The clients of one run() against an API and a transport that never fail.
\* EmulatorClient objects share no state, so the client variables follow one
\* running client at a time: the one whose run() returns next. Its stats are
\* what runClient pushes, and the variables then follow a new EmulatorClient.
TokensPerCycle == 1

\* The ClientStats that run() of client c returns: the counters of st, the
\* latency samples of the cycles that recorded one, startTime and endTime.
StatsOf(c, st) ==
    [clientId |-> c,
     requestLatencies |-> [i \in 1..Len(st.requestLatencies) |->
                             LatencyOf(c, st.requestLatencies[i])],
     tokenLatencies   |-> [i \in 1..Len(st.tokenLatencies) |->
                             LatencyOf(c, st.tokenLatencies[i])],
     cyclesCompleted  |-> st.cyclesCompleted,
     totalTokensReceived |-> st.totalTokensReceived,
     totalRequests    |-> st.totalRequests,
     connectionErrors |-> st.connectionErrors,
     timeoutErrors    |-> st.timeoutErrors,
     otherErrors      |-> st.otherErrors,
     startTime        |-> 1,
     endTime          |-> 2]

\* new EmulatorClient(clientId, config)
NewClient ==
    /\ cpc' = "start"
    /\ cycle' = 0
    /\ tokenQueue' = <<>>
    /\ tokenResolvers' = <<>>
    /\ doneResolved' = FALSE
    /\ stats' = NewClientStats
    /\ shouldReconnect' = TRUE
    /\ wsOpen' = FALSE
    /\ net' = <<>>
    /\ sentTokens' = [k \in Cycles |-> 0]
    /\ sentDone' = [k \in Cycles |-> FALSE]
    /\ outcome' = [k \in Cycles |-> "none"]
    /\ firstTokenOf' = [k \in Cycles |-> 0]
    /\ doneBy' = 0
    /\ completedBy' = [k \in Cycles |-> 0]
    /\ handed' = {}
    /\ elapsed' = 0
    /\ deadline' = 0
    /\ runCalls' = 0
    /\ sessionId' = ""
    /\ ws' = 0
    /\ sock' = [s \in SockIds |-> "none"]
    /\ handlers' = [s \in SockIds |-> 0]
    /\ procs' = [p \in ProcIds |-> IdleProc]
    /\ drops' = 0
    /\ log' = {}
    /\ failures' = {}
    /\ deletes' = 0

\* run() of client c has returned this.stats to runClient.
RunReturns(c) ==
    /\ cpc = "returned"
    /\ RunClientAfterRun(c, "fulfilled", StatsOf(c, stats))
    /\ NewClient
    /\ UNCHANGED svars

\* A client is inside client.run().
Running == \E c \in ClientIds : c < numClients /\ cstate[c] = "running"

\* The server streams the response of the cycle in progress: up to
\* TokensPerCycle tokens, then the completion marker, all before any timer
\* of the cycle fires.
TokenInTime ==
    /\ cycle >= 1
    /\ outcome[cycle] = "none"
    /\ ~sentDone[cycle]
    /\ sentTokens[cycle] < TokensPerCycle
    /\ PublishToken(cycle)

DoneInTime ==
    /\ cycle >= 1
    /\ outcome[cycle] = "none"
    /\ sentTokens[cycle] >= 1
    /\ PublishDone(cycle)

\* run(), the steps of the running client when nothing fails, the server,
\* and the return of a client's run().
SuccessNext ==
    \/ OrchRun
    \/ Running /\ ConnectStart
    \/ Running /\ SessionFetchOk
    \/ Running /\ SessionJsonOk
    \/ Running /\ ConnOpen
    \/ Running /\ ConnReply
    \/ Running /\ RequestResolve
    \/ Running /\ JsonOk
    \/ Running /\ DeleteOk
    \/ Running /\ OnMessage
    \/ Running /\ TokenInTime
    \/ Running /\ DoneInTime
    \/ \E c \in ClientIds : RunReturns(c)

SuccessSpec == OrchInit /\ [][SuccessNext]_vars

\* ------------------------------------------------- statistics: specification
\* The arguments of one call of percentile: up to MaxSamples samples drawn
\* from SampleValues, and a percent.
SampleValues == {10, 20, 30, 40}
Percents == {0, 50, 95, 99, 100}

\* The argument of one call of fromClientStats: up to MaxClients records, the
\* record at position i being that of client i - 1 after a run of some kind
\* over some times, or a fresh record.
StatsKinds == RunKinds \cup {"tokenTimeouts"}
RunTimes == {<<1, 1>>, <<1, 3>>, <<2, 3>>}
RecordChoices == (StatsKinds \X RunTimes) \cup {<<"fresh", <<0, 0>>>>}
RecordsOf(f) == [i \in DOMAIN f |-> ClientRecord(i - 1, f[i][1], f[i][2])]

StatsInit ==
    /\ ClientInit
    /\ limiter = TRUE
    /\ numClients = 0
    /\ maxConcurrent = 0
    /\ opc = "idle"
    /\ permits = 0
    /\ queue = <<>>
    /\ cstate = [c \in ClientIds |-> "new"]
    /\ running = FALSE
    /\ progressInterval = FALSE
    /\ report = NoReport
    /\ ticket = [c \in ClientIds |-> 0]
    /\ releases = [c \in ClientIds |-> 0]
    /\ progressLog = 0
    /\ clearCount = 0
    /\ pvalue = NoValue
    /\ \/ /\ \E n \in 0..MaxSamples : samples \in [1..n -> SampleValues]
          /\ pct \in Percents
          /\ clientsStats = <<>>
       \/ /\ samples = <<>>
          /\ pct = 0
          /\ \E n \in 0..MaxClients : \E f \in [1..n -> RecordChoices] :
                clientsStats = RecordsOf(f)

\* percentile(samples, pct) is called and returns.
CallPercentile ==
    /\ pvalue = NoValue
    /\ pvalue' = Percentile(samples, pct)
    /\ UNCHANGED <<samples, pct>>
    /\ UNCHANGED <<cvars, ovars, lvars, tvars>>

\* AggregatedStats.fromClientStats(clientsStats) is called and returns; it
\* assigns to nothing that its argument holds.
CallFromClientStats ==
    /\ report = NoReport
    /\ report' = FromClientStats(clientsStats)
    /\ UNCHANGED <<limiter, numClients, maxConcurrent, opc, permits, queue,
                   cstate, clientsStats, running, progressInterval, ticket,
                   releases, progressLog, clearCount>>
    /\ UNCHANGED <<cvars, lvars, svars, tvars>>

StatsNext ==
    \/ CallPercentile
    \/ CallFromClientStats

StatsSpec == StatsInit /\ [][StatsNext]_vars

\* ------------------------------------------------ properties of the orchestrator
Active == {c \in ClientIds : cstate[c] = "running"}
Waiting == {c \in ClientIds : cstate[c] = "waiting"}
Settled == {c \in ClientIds : cstate[c] \in {"settled", "rejected"}}
StatsFor(c) == {i \in 1..Len(clientsStats) : clientsStats[i].clientId = c}
BatchSettled == opc \in {"done", "rejected"}
HasCapacity == ~limiter \/ maxConcurrent >= 1

\* C4: at any time at most maxConcurrent clients have been admitted and have
\* a run() that has not settled yet.
C4_AdmissionBound == Cardinality(Active) <= maxConcurrent

\* C5: a release with clients blocked in acquire admits exactly one of them,
\* the one that has waited longest; nothing else admits a blocked client, and
\* no client that calls acquire later gets in ahead of a blocked one.
C5_FifoHandOff ==
    [][LET admittedNow == {c \in Waiting : cstate'[c] = "running"}
           released == \E c \in ClientIds : releases'[c] # releases[c]
       IN /\ (released /\ Waiting # {}) => Cardinality(admittedNow) = 1
          /\ ~released => admittedNow = {}
          /\ \A c \in admittedNow : \A d \in Waiting : ticket[c] <= ticket[d]
          /\ \A c \in ClientIds :
                (cstate[c] = "new" /\ cstate'[c] = "running") =>
                    \A d \in ClientIds :
                        cstate'[d] = "waiting" => ticket'[c] < ticket'[d]
      ]_vars

C5_Witness ==
    /\ limiter
    /\ \E c, d, e \in ClientIds :
          /\ releases[c] = 1
          /\ cstate[d] = "running" /\ ticket[d] > maxConcurrent
          /\ cstate[e] = "waiting"

\* C6: with the limiter, a client has released its slot exactly once as soon
\* as its run() has settled (its stats are in clientsStats), and not at all
\* before: never without having been admitted, never twice.
C6_ReleaseExactlyOnceOnSettle ==
    limiter =>
        \A c \in ClientIds :
            /\ releases[c] = IF c \in Settled THEN 1 ELSE 0
            /\ releases[c] = Cardinality(StatsFor(c))
            /\ releases[c] > 0 => ticket[c] > 0

C6_Witness ==
    /\ limiter
    /\ \E c, d \in ClientIds :
          /\ releases[c] = 1
          /\ \E i \in StatsFor(c) : clientsStats[i].connectionErrors = 1
          /\ releases[d] = 1
          /\ \E i \in StatsFor(d) : clientsStats[i].connectionErrors = 0
    /\ Active # {}

\* C7: when the report is computed every one of the numClients clients has
\* settled and clientsStats holds exactly one record per client id, so the
\* report counts numClients clients.
C7_ReportAfterAllSettled ==
    report # NoReport =>
        /\ \A c \in 0..(numClients - 1) :
              cstate[c] = "settled" /\ Cardinality(StatsFor(c)) = 1
        /\ Len(clientsStats) = numClients
        /\ report.totalClients = numClients

C7_Witness ==
    /\ report # NoReport
    /\ numClients >= 2
    /\ report.failedConnections >= 1
    /\ report.successfulConnections >= 1

\* C8: with capacity for at least one client, and every run() settling, every
\* client is eventually admitted (once admitted, a client stays admitted or
\* settled) and the report is eventually produced.
C8_NoStarvation ==
    HasCapacity =>
        /\ <>(\A c \in 0..(numClients - 1) : cstate[c] \in {"running", "settled"})
        /\ <>(opc = "done" /\ report # NoReport)

C8_Witness ==
    /\ limiter
    /\ maxConcurrent >= 1
    /\ numClients > maxConcurrent
    /\ opc = "done"
    /\ report # NoReport

C10_ProgressTimerCancelledOnce ==
    /\ [](BatchSettled => (clearCount = 1 /\ ~progressInterval))
    /\ [](~BatchSettled => clearCount = 0)
    /\ [][BatchSettled => progressLog' = progressLog]_vars

C10_Witness ==
    /\ opc = "done"
    /\ numClients >= 2
    /\ progressLog >= 1
    /\ clearCount = 1

\* ---------------------------------------------------- properties of run()
FailedCycles == {k \in Cycles : outcome[k] \in TimeoutOutcomes \cup {"error"}}
ConnectFailures == {"sessionCreate", "socketOpen", "connectionTimeout"}

\* C11: run() never rejects. A failure of session creation or of the socket
\* connection is counted in connectionErrors, a failed cycle in timeoutErrors
\* or otherErrors, a failed session release is logged, and in each case run()
\* goes on to return the stats.
C11_RunNeverThrows ==
    /\ cpc # "threw"
    /\ failures \cap ConnectFailures # {} =>
          /\ stats.connectionErrors = 1
          /\ "connectFailed" \in log
          /\ cpc = "returned"
    /\ stats.timeoutErrors + stats.otherErrors >= Cardinality(FailedCycles)
    /\ "sessionClose" \in failures =>
          /\ "closeSessionFailed" \in log
          /\ cpc = "returned"

C11_Witness ==
    /\ cpc = "returned"
    /\ "sessionClose" \in failures
    /\ outcome[1] \in TimeoutOutcomes
    /\ outcome[CyclesPerClient] = "error"

\* Spec with the scheduling the runtime guarantees: an armed timer fires
\* unless the wait it bounds has ended, and a call to the HTTP API settles.
\* Nothing obliges the server to answer on the socket or to publish.
FairSpec ==
    /\ Spec
    /\ WF_vars(ConnectStart)
    /\ WF_vars(SessionFetchOk \/ SessionFetchFail)
    /\ WF_vars(SessionJsonOk \/ SessionJsonFail)
    /\ WF_vars(ConnTimeout)
    /\ WF_vars(RequestTimeout)
    /\ WF_vars(TokenTimeout)
    /\ WF_vars(DoneTimeout)
    /\ WF_vars(JsonOk \/ JsonFail)
    /\ WF_vars(DeleteOk \/ DeleteFail)

\* C12: run() eventually returns its stats, whatever the transport delivers.
C12_RunReturns == <>(cpc = "returned")

\* C13: when a step of connect() fails (the session POST or its body, the
\* socket before it opens, the connection timer), run() has returned with one
\* connection error and without having attempted a cycle.
C13_ConnectFailureReturnsEmptyStats ==
    failures \cap ConnectFailures # {} =>
       /\ cpc = "returned"
       /\ stats.connectionErrors = 1
       /\ cycle = 0
       /\ stats.totalRequests = 0
       /\ stats.cyclesCompleted = 0
       /\ stats.requestLatencies = <<>>
       /\ stats.tokenLatencies = <<>>

C13_Witness ==
    /\ "connectionTimeout" \in failures
    /\ sessionId = "sid"
    /\ cpc = "returned"

\* The cycles whose runCycle has been entered and has not returned.
InProgress == {k \in Cycles : k <= cycle /\ outcome[k] = "none"}

\* C14: at most one cycle of the client is in progress, and every cycle
\* before the one in progress has returned (completed, timed out or failed).
C14_CyclesSequential ==
    /\ Cardinality(InProgress) <= 1
    /\ \A k \in Cycles : k < cycle => outcome[k] # "none"
    /\ \A k \in Cycles : k > cycle => outcome[k] = "none"

C14_Witness ==
    /\ cycle = CyclesPerClient
    /\ cycle > 1
    /\ InProgress = {cycle}
    /\ cpc = "waitDone"

\* C15: a cycle that fails is followed by the next cycle, so that run()
\* reaches disconnect() only after it has started cyclesPerClient cycles and
\* each of them has returned; having connected, it returns only through
\* disconnect().
C15_FailedCycleAbortsOnlyItself ==
    /\ [](cpc \in {"closing", "returned"} /\ failures \cap ConnectFailures = {} =>
             /\ cycle = CyclesPerClient
             /\ \A k \in Cycles : outcome[k] # "none")
    /\ [](cpc = "returned" /\ cycle >= 1 => deletes = 1)
    /\ [][cycle >= 1 /\ cycle < CyclesPerClient /\ outcome'[cycle] # outcome[cycle] =>
             /\ cycle' = cycle + 1
             /\ cpc' = "request"]_vars

C15_Witness ==
    /\ cpc = "returned"
    /\ deletes = 1
    /\ outcome[1] = "error"
    /\ \A k \in Cycles : outcome[k] \in TimeoutOutcomes \cup {"error"}

\* C16: the step in which a cycle returns because one of its three timers
\* fired adds exactly 1 to timeoutErrors and leaves otherErrors alone; the
\* step in which it returns on any other error adds exactly 1 to otherErrors
\* and leaves timeoutErrors alone; neither counts the cycle as completed.
C16_TimeoutClassification ==
    [][cycle >= 1 /\ outcome[cycle] = "none" /\ outcome'[cycle] # "none" =>
         /\ outcome'[cycle] \in TimeoutOutcomes =>
               /\ stats'.timeoutErrors = stats.timeoutErrors + 1
               /\ stats'.otherErrors = stats.otherErrors
               /\ stats'.cyclesCompleted = stats.cyclesCompleted
         /\ outcome'[cycle] = "error" =>
               /\ stats'.otherErrors = stats.otherErrors + 1
               /\ stats'.timeoutErrors = stats.timeoutErrors
               /\ stats'.cyclesCompleted = stats.cyclesCompleted
         /\ outcome'[cycle] = "completed" =>
               /\ stats'.otherErrors = stats.otherErrors
               /\ stats'.timeoutErrors = stats.timeoutErrors]_vars

C16_Witness ==
    /\ outcome[1] = "doneTimeout"
    /\ outcome[CyclesPerClient] = "error"
    /\ stats.cyclesCompleted = 0
    /\ stats.timeoutErrors = 1
    /\ stats.otherErrors = 1
    /\ stats.totalRequests = CyclesPerClient

\* The request of cycle k won its race (its latency sample was recorded).
RequestSucceeded(k) ==
    \E i \in 1..Len(stats.requestLatencies) : stats.requestLatencies[i] = k

\* C17: a returned cycle whose request succeeded, whose first-token wait was
\* ended by a token and for which the server emitted no done marker ended as
\* a completion timeout: its request is counted in totalRequests, it is not
\* counted in cyclesCompleted, and the next cycle has started.
C17_CompletionTimeoutScenario ==
    \A k \in Cycles :
       (/\ outcome[k] # "none"
        /\ RequestSucceeded(k)
        /\ firstTokenOf[k] # 0
        /\ ~sentDone[k])
       => /\ outcome[k] = "doneTimeout"
          /\ stats.totalRequests =
                Cardinality({j \in Cycles : RequestSucceeded(j)})
          /\ stats.cyclesCompleted =
                Cardinality({j \in Cycles : outcome[j] = "completed"})
          /\ k < CyclesPerClient => cycle > k

\* C18: in every reachable state of the client, totalRequests is at least
\* cyclesCompleted.
C18_RequestsAtLeastCompleted ==
    stats.totalRequests >= stats.cyclesCompleted

C18_Witness ==
    /\ stats.cyclesCompleted = 1
    /\ stats.totalRequests = CyclesPerClient
    /\ cpc = "returned"

\* C19: when run() has returned, the session-close call has been issued for
\* the session that connect() created, also when the run failed after the
\* session was created.
C19_SessionReleasedOnReturn ==
    (cpc = "returned" /\ sessionId # "") => deletes >= 1

\* C20: once disconnect() has started (shouldReconnect is false), no step
\* starts a transport connection or completes one, also when
\* reconnectWebSocket() was already running at that moment; and when run() has
\* returned, no socket of the client is open.
C20_NoReconnectionAfterClosed ==
    [][/\ ~shouldReconnect =>
             \A s \in SockIds :
                sock'[s] \in {"connecting", "open"} => sock'[s] = sock[s]
       /\ cpc' = "returned" => \A s \in SockIds : sock'[s] # "open"]_vars

\* --------------------------------------------- properties of reconnection
\* A reconnection procedure starts in this step: the handler of a socket event
\* takes a free procedure slot.
Started(p) == procs[p].pc = "idle" /\ procs'[p].pc # "idle"

\* C21: a reconnection procedure starts only in a step in which a socket that
\* was open or had reported an error emits 'error' or 'close' while
\* shouldReconnect is true; the 'close' of the socket that disconnect() closed
\* starts none.
C21_ReconnectionOnlyWhileRunning ==
    [][/\ (\E p \in ProcIds : Started(p))
             => /\ shouldReconnect
                /\ \E s \in SockIds : /\ sock[s] \in {"open", "erroring"}
                                      /\ sock'[s] # sock[s]
       /\ \A s \in SockIds :
             (sock[s] = "closing" /\ sock'[s] # "closing") => procs' = procs]_vars

\* run() went through disconnect() on a transport that never failed, the
\* socket it closed has emitted 'close', and no reconnection is running.
C21_Witness ==
    /\ cpc = "returned"
    /\ deletes = 1
    /\ drops = 0
    /\ \A s \in SockIds : sock[s] = "none"
    /\ \A p \in ProcIds : procs[p] = IdleProc

\* The WebSockets that the running call p of reconnectWebSocket() has created
\* so far: the loop index counts from 0, and the call has created none while
\* it is idle or in the one-second wait of the 'error' handler.
AttemptsMade(p) ==
    IF procs[p].pc \in {"opening", "handshake", "backoff"}
       THEN procs[p].attempt + 1
       ELSE 0

RECURSIVE AttemptsUpTo(_)
AttemptsUpTo(n) == IF n = 0 THEN 0 ELSE AttemptsUpTo(n - 1) + AttemptsMade(n)

\* C22: the reconnection attempts made by the calls that are running never
\* exceed 3 for each disconnection of the transport that has happened.
C22_BoundedRetry ==
    AttemptsUpTo(MaxProcs) <= MaxRetries * drops

\* The schedule of waits between retry attempts, in milliseconds, and its cap.
Schedule == <<1000, 2000, 4000>>
BackoffCap == 10000

Exhausted == "reconnectFailed" \in log

\* C24: once a reconnection procedure has exhausted its attempts, no socket
\* delivers events to the client again, every cycle that ends afterwards with
\* its request answered ends as a timeout counted in timeoutErrors, and run()
\* does not throw.
C24_DegradedMode ==
    [][Exhausted =>
          /\ ~wsOpen'
          /\ \A k \in Cycles :
                (outcome[k] = "none" /\ outcome'[k] # "none" /\ RequestSucceeded(k))
                   => /\ outcome'[k] \in {"tokenTimeout", "doneTimeout"}
                      /\ stats'.timeoutErrors = stats.timeoutErrors + 1
          /\ cpc' # "threw"]_vars

\* C25: once run() has returned, no step changes any field of the ClientStats
\* it returned.
C25_StatsFrozenAfterRun ==
    [][cpc = "returned" => stats' = stats]_vars

\* --------------------------------------------- properties of the statistics
\* The smallest and the largest element of a non-empty array.
MinOf(arr) ==
    CHOOSE x \in {arr[i] : i \in 1..Len(arr)} : \A i \in 1..Len(arr) : x <= arr[i]
MaxOf(arr) ==
    CHOOSE x \in {arr[i] : i \in 1..Len(arr)} : \A i \in 1..Len(arr) : x >= arr[i]

\* C26: for a non-empty array, percentile(arr, 0) is its minimum and
\* percentile(arr, 100) is its maximum.
C26_PercentileExtremes ==
    (pvalue # NoValue /\ samples # <<>>)
       => /\ pct = 0 => pvalue = Ratio(MinOf(samples), 1)
          /\ pct = 100 => pvalue = Ratio(MaxOf(samples), 1)

C26_Witness ==
    /\ samples = <<30, 10, 40, 20>>
    /\ pct = 100
    /\ pvalue = Ratio(40, 1)

\* The arrangement of the elements of arr in non-decreasing order.
Count(arr, v) == Cardinality({i \in 1..Len(arr) : arr[i] = v})
Ascending(arr) ==
    CHOOSE q \in [1..Len(arr) -> {arr[i] : i \in 1..Len(arr)}] :
       /\ \A i \in 1..(Len(arr) - 1) : q[i] <= q[i + 1]
       /\ \A v \in {arr[i] : i \in 1..Len(arr)} : Count(q, v) = Count(arr, v)

\* Linear interpolation on the ordered samples at the real index
\* i = (p / 100) * (n - 1), with floor f, ceiling c and fractional part w / 100.
LinearInterpolation(arr, p) ==
    LET s == Ascending(arr)
        f == (p * (Len(arr) - 1)) \div 100
        w == (p * (Len(arr) - 1)) % 100
        c == IF w = 0 THEN f ELSE f + 1
    IN Ratio(s[f + 1] * (100 - w) + s[c + 1] * w, 100)

Permuted(arr, f) == [i \in 1..Len(arr) |-> arr[f[i]]]

\* C27: percentile(arr, p) over n >= 1 samples is the linear interpolation on
\* the ordered samples at index (p / 100) * (n - 1); percentile([10, 20, 30,
\* 40], 50) is 25; and the value is the same for every order of the samples.
C27_PercentileInterpolates ==
    (pvalue # NoValue /\ samples # <<>>)
       => /\ pvalue = LinearInterpolation(samples, pct)
          /\ (samples = <<10, 20, 30, 40>> /\ pct = 50) => pvalue = Ratio(25, 1)
          /\ \A f \in Permutations(1..Len(samples)) :
                Percentile(Permuted(samples, f), pct) = pvalue

C27_Witness ==
    /\ samples = <<40, 10, 30, 20>>
    /\ pct = 50
    /\ pvalue = Ratio(25, 1)

\* Every entry of the list is a client that recorded nothing but errors.
AllFailed(list) ==
    \A i \in 1..Len(list) :
       /\ list[i].requestLatencies = <<>>
       /\ list[i].tokenLatencies = <<>>
       /\ list[i].cyclesCompleted = 0
       /\ list[i].totalRequests = 0
       /\ list[i].totalTokensReceived = 0

RECURSIVE SumOver(_, _)
SumOver(S, g) ==
    IF S = {} THEN 0
    ELSE LET i == CHOOSE j \in S : TRUE IN g[i] + SumOver(S \ {i}, g)

\* The totals of a report.
Totals(rep) ==
    <<rep.totalClients, rep.totalCycles, rep.totalErrors,
      rep.successfulConnections, rep.failedConnections>>

\* C29: the totals that fromClientStats returns are the sums and counts of the
\* per-client values, they are the same for every permutation of the list,
\* and the call leaves the list as it was.
C29_AggregationOrderIndependent ==
    [][(report = NoReport /\ report' # NoReport)
          => LET list == clientsStats
                 idx == 1..Len(list)
             IN /\ clientsStats' = list
                /\ report'.totalClients = Len(list)
                /\ report'.totalCycles =
                      SumOver(idx, [i \in idx |-> list[i].cyclesCompleted])
                /\ report'.totalErrors =
                      SumOver(idx, [i \in idx |-> list[i].connectionErrors
                                                  + list[i].timeoutErrors
                                                  + list[i].otherErrors])
                /\ report'.failedConnections =
                      Cardinality({i \in idx : list[i].connectionErrors > 0})
                /\ report'.successfulConnections =
                      Len(list) - report'.failedConnections
                /\ \A f \in Permutations(idx) :
                      Totals(CountsOf(Permuted(list, f))) = Totals(report')]_vars

C29_Witness ==
    /\ report # NoReport
    /\ Len(clientsStats) = 3
    /\ clientsStats[1].cyclesCompleted > 0
    /\ clientsStats[2].connectionErrors > 0
    /\ clientsStats[3].timeoutErrors > 0
    /\ report.totalCycles = clientsStats[1].cyclesCompleted
    /\ report.totalErrors = 1 + clientsStats[3].timeoutErrors
    /\ report.failedConnections = 1

\* The positions of the clients with a non-zero startTime.
ValidIdx(list) == {i \in 1..Len(list) : list[i].startTime # 0}

\* C30: totalDuration is the largest endTime minus the smallest startTime
\* over the clients with a non-zero startTime, and 0 when that difference is
\* not positive or no client is valid; when totalDuration is 0 the three
\* rates are 0.
C30_DurationAndRates ==
    report # NoReport
       => LET list == clientsStats
              V == ValidIdx(list)
              maxEnd == CHOOSE e \in {list[i].endTime : i \in V} :
                           \A i \in V : e >= list[i].endTime
              minStart == CHOOSE s \in {list[i].startTime : i \in V} :
                             \A i \in V : s <= list[i].startTime
          IN /\ V = {} => report.totalDuration = 0
             /\ V # {} => report.totalDuration =
                             IF maxEnd - minStart > 0 THEN maxEnd - minStart ELSE 0
             /\ report.totalDuration = 0
                   => /\ report.requestsPerSecond = Zero
                      /\ report.tokensPerSecond = Zero
                      /\ report.cyclesPerSecond = Zero

\* A record that never ran and two overlapping runs: the duration is 2, the
\* sum of the per-client durations is 3.
C30_Witness ==
    /\ report # NoReport
    /\ Len(clientsStats) = 3
    /\ clientsStats[1].startTime = 0
    /\ <<clientsStats[2].startTime, clientsStats[2].endTime>> = <<1, 3>>
    /\ <<clientsStats[3].startTime, clientsStats[3].endTime>> = <<2, 3>>
    /\ report.totalDuration = 2
    /\ report.requestsPerSecond # Zero

\* --------------------------------------------- properties of the coordinator
\* The step is the 'message' handler receiving a token push.
TokenArrives ==
    /\ wsOpen
    /\ Len(net) > 0
    /\ Head(net).kind = "token"
    /\ net' = Tail(net)

\* The step is runCycle calling waitForToken() (the request race was won).
ConsumerWaits ==
    /\ cpc = "request"
    /\ stats'.totalRequests = stats.totalRequests + 1

\* C32: a token that arrives while a waiter is queued is handed to the oldest
\* queued waiter and is not left in the buffer; with no waiter queued it is
\* appended to the buffer; a consumer that waits while the buffer is not empty
\* takes the oldest buffered token at once and is not queued.
C32_CoordinatorDeliveryOrder ==
    [][/\ TokenArrives =>
            IF Len(tokenResolvers) > 0
               THEN /\ tokenResolvers' = Tail(tokenResolvers)
                    /\ [waiter |-> Head(tokenResolvers), at |-> cycle,
                        tok |-> Head(net).cyc] \in handed'
                    /\ tokenQueue' = tokenQueue
                    /\ tokenQueue = <<>>
               ELSE /\ tokenQueue' = Append(tokenQueue, Head(net).cyc)
                    /\ UNCHANGED <<tokenResolvers, handed>>
       /\ (ConsumerWaits /\ Len(tokenQueue) > 0) =>
            /\ firstTokenOf'[cycle] = Head(tokenQueue)
            /\ tokenQueue' = Tail(tokenQueue)
            /\ UNCHANGED <<tokenResolvers, handed>>
       /\ (ConsumerWaits /\ Len(tokenQueue) = 0) =>
            /\ tokenResolvers' = Append(tokenResolvers, cycle)
            /\ cpc' = "waitToken"]_vars

\* One cycle was handed its own token as a queued waiter, and a cycle that
\* never had a waiter served took its first token from the buffer.
C32_Witness ==
    /\ \E h \in handed : h.waiter = h.at /\ h.tok = h.at
    /\ \E k \in Cycles :
          /\ firstTokenOf[k] # 0
          /\ ~\E h \in handed : h.waiter = k

\* ------------------------------------------------ properties of the timers
\* C33: the first-token wait shares the timeout budget of the request, counted
\* from the top of runCycle: a cycle that is still without its first token is
\* never older than requestTimeout.
C33_FirstTokenBudgetFromCycleStart ==
    cpc \in {"request", "waitToken"} => elapsed <= ConfigRequestTimeout

\* ------------------------------------------------- properties of the counters
\* C34: /api/run is called once per started cycle: at every point the calls
\* issued are as many as the cycles started, and totalRequests is no more.
C34_OneRunCallPerCycle ==
    /\ runCalls = cycle
    /\ stats.totalRequests <= cycle

\* A cycle lost a race to its timer and the next cycle has started.
C34_Witness ==
    \E k \in Cycles :
        /\ outcome[k] \in TimeoutOutcomes
        /\ cycle = k + 1
        /\ runCalls = k + 1

\* C35: at most one reconnectWebSocket() is in progress at any time, and at
\* most one socket delivers events to the client.
Reconnecting == {p \in ProcIds : procs[p].pc \in {"opening", "handshake", "backoff"}}
Delivering == {s \in SockIds : sock[s] = "open" /\ handlers[s] > 0}

C35_SingleReconnection ==
    /\ Cardinality(Reconnecting) <= 1
    /\ Cardinality(Delivering) <= 1

\* ------------------------------------------------- properties of connect()
\* C36: once the socket of connect() is open, either the reply to the connect
\* command arrives (run() enters its first cycle) or connect() returns false
\* with a connection error recorded and run() returns.
C36_HandshakeBounded ==
    (cpc = "handshake") ~>
        (cycle >= 1 \/ (cpc = "returned" /\ stats.connectionErrors > 0))

\* The step is the 'message' handler receiving a done push.
DoneArrives ==
    /\ wsOpen
    /\ Len(net) > 0
    /\ Head(net).kind = "done"
    /\ net' = Tail(net)

\* The cycle in progress has not started its first-token wait: its request
\* is in flight.
RequestInFlight == cpc = "request"

\* C37: a token of the cycle in progress that arrives while its request is in
\* flight is kept in the buffer for the first-token wait of that cycle, and a
\* done marker of the cycle in progress that arrives before its completion
\* wait leaves the donePromise of that cycle resolved.
C37_NoLostWakeup ==
    [][/\ (TokenArrives /\ RequestInFlight /\ Head(net).cyc = cycle) =>
              tokenQueue' = Append(tokenQueue, cycle)
       /\ (DoneArrives /\ cpc \in {"request", "waitToken"}
                       /\ Head(net).cyc = cycle) =>
              doneResolved']_vars

\* The cycles whose runCycle has returned.
Finished == {k \in Cycles : outcome[k] # "none"}

\* C38: in every state the request latencies are as many as totalRequests, the
\* token latencies are no more, the completed cycles are no more than the token
\* latencies, and every finished cycle is counted once: as completed, as a
\* timeout or as an other error (otherErrors also counts the 'error' events of
\* the socket); the cycles started are at most cyclesPerClient.
C38_ClientAccounting ==
    /\ Len(stats.requestLatencies) = stats.totalRequests
    /\ Len(stats.tokenLatencies) <= stats.totalRequests
    /\ stats.cyclesCompleted <= Len(stats.tokenLatencies)
    /\ stats.cyclesCompleted + stats.timeoutErrors <= cycle
    /\ cycle <= CyclesPerClient
    /\ stats.cyclesCompleted
          = Cardinality({k \in Finished : outcome[k] = "completed"})
    /\ stats.timeoutErrors
          = Cardinality({k \in Finished : outcome[k] \in TimeoutOutcomes})
    /\ stats.otherErrors
          >= Cardinality({k \in Finished : outcome[k] = "error"})

\* run() has returned after a completed cycle and a cycle that timed out with
\* its request answered.
C38_Witness ==
    /\ cpc = "returned"
    /\ stats.cyclesCompleted >= 1
    /\ stats.timeoutErrors >= 1
    /\ stats.totalRequests > stats.cyclesCompleted

\* C39: between handler executions the token buffer and the waiter queue are
\* never both non-empty, and a waiter woken by a token arrival is resolved
\* with a token, never with undefined.
C39_MailboxInvariant ==
    /\ ~(Len(tokenQueue) > 0 /\ Len(tokenResolvers) > 0)
    /\ \A h \in handed : h.tok \in Cycles

\* A waiter was woken by a token, a later wait timed out, the next cycle has
\* reset the buffer and a waiter is queued again.
C39_Witness ==
    /\ handed # {}
    /\ \E k \in Cycles : outcome[k] \in TimeoutOutcomes /\ k < cycle
    /\ Len(tokenResolvers) > 0
    /\ Len(tokenQueue) = 0

\* ------------------------------------------------ properties of the Semaphore
\* C40: once run() has created the Semaphore with maxConcurrentClients
\* permits, permits stays between 0 and that capacity, permits plus the
\* clients admitted and not yet released is the capacity, and clients are
\* blocked only while no permit is left.
C40_SemaphoreInvariant ==
    (limiter /\ opc # "idle") =>
        /\ 0 <= permits
        /\ permits <= maxConcurrent
        /\ permits + Cardinality(Active) = maxConcurrent
        /\ Len(queue) > 0 => permits = 0

\* Clients are blocked, every permit is taken, and a release has already
\* handed a permit on.
C40_Witness ==
    /\ limiter
    /\ opc = "awaiting"
    /\ maxConcurrent >= 1
    /\ Len(queue) > 0
    /\ permits = 0
    /\ Cardinality(Active) = maxConcurrent
    /\ \E c \in ClientIds : releases[c] > 0


\* ------------------------------------------- properties of the whole run
\* C31: when every request is answered, every cycle's tokens and completion
\* arrive in time and nothing disconnects, the final report of N clients with
\* C cycles each has totalCycles = N*C, successfulConnections = N,
\* failedConnections = 0 and totalErrors = 0, over N*C request-latency samples.
C31_EndToEndSuccess ==
    opc = "done" =>
        /\ report.totalClients = numClients
        /\ report.totalCycles = numClients * CyclesPerClient
        /\ report.successfulConnections = numClients
        /\ report.failedConnections = 0
        /\ report.totalErrors = 0
        /\ Len(clientsStats) = numClients
        /\ SumSeq([i \in 1..Len(clientsStats) |->
                     Len(clientsStats[i].requestLatencies)])
              = numClients * CyclesPerClient

\* A finished run of several clients that had to queue for the one permit.
C31_Witness ==
    /\ opc = "done"
    /\ numClients >= 2
    /\ limiter
    /\ maxConcurrent = 1
    /\ report.totalCycles = numClients * CyclesPerClient

====
